---- MODULE Spec2Model ----
(***************************************************************************)
(* Jellyfin-Migrator: the path rewrite engine, the migration state file    *)
(* and the checkpointed four-step pipeline, modelled from the Python       *)
(* sources under src/jellyfin_migrator.                                    *)
(*                                                                         *)
(* Text is a sequence of one-character strings, so that parsing a string   *)
(* into a path and serialising a path back into a string are computed.     *)
(* Two longer atoms, "http:" and "https:", stand for those characters at   *)
(* the head of a value.                                                    *)
(***************************************************************************)
EXTENDS Integers, Sequences, FiniteSets, TLC

VARIABLES
    config,      \* MigrationConfig: path_replacements and the job lists
    rw,          \* the value under rewrite and the last ReplacementResult
    call,        \* arguments and result of one operation applied on its own
    stateFile,   \* content of the state file on disk
    loaded,      \* result of the last MigrationState.load on its own
    ctx,         \* MigrationContext of the running process
    pc,          \* position of the process inside cmd_migrate/run_migration
    db,          \* the migrated (target) copy of jellyfin.db
    tgtFiles,    \* files present under the target root
    hist         \* bookkeeping of the current run (what ran, what crashed)

vars == <<config, rw, call, stateFile, loaded, ctx, pc, db, tgtFiles, hist>>

---------------------------------------------------------------------------
(* Bounds of the model *)

\* longest value handed to the rewrite
MaxLen == 4
\* longest list of path mappings in a configuration
MaxMappings == 2

---------------------------------------------------------------------------
(* Text *)

Slash == "/"
Backslash == "\\"
Dot == "."

\* characters of the values that are rewritten
Alphabet == {"/", "a", "b"}

StringsUpTo(n) == UNION {[1..k -> Alphabet] : k \in 0..n}

\* the scheme prefixes of a URL, each as one atom
Http == "http:"
Https == "https:"

\* values of at most n characters, and such values behind a scheme prefix
ValuesUpTo(n) ==
    StringsUpTo(n) \cup {<<h>> \o v : h \in {Http, Https}, v \in StringsUpTo(n - 1)}

\* str.startswith(prefix) for a scheme prefix
StartsWith(data, prefix) == data # <<>> /\ Head(data) = prefix

\* "/a", "/b", "/a/b", ... as sequences of characters
S_a == <<"/", "a">>
S_b == <<"/", "b">>
S_ab == <<"/", "a", "/", "b">>
S_rel_b == <<"b">>

IsPrefix(p, s) == Len(p) <= Len(s) /\ SubSeq(s, 1, Len(p)) = p

\* str.replace("/", sep)
ReplaceSlash(s, sep) == [i \in 1..Len(s) |-> IF s[i] = Slash THEN sep ELSE s[i]]

---------------------------------------------------------------------------
(* pathlib.Path on a POSIX host: a root ("", "/" or "//") and the segments *)

RECURSIVE LeadingSlashes(_)
LeadingSlashes(s) ==
    IF s = <<>> \/ Head(s) # Slash THEN 0 ELSE 1 + LeadingSlashes(Tail(s))

\* exactly two leading slashes are kept as the root "//", any other number is "/"
PathRoot(s) ==
    LET n == LeadingSlashes(s)
    IN  IF n = 0 THEN <<>> ELSE IF n = 2 THEN <<Slash, Slash>> ELSE <<Slash>>

KeepSegment(seg) == seg # <<>> /\ seg # <<Dot>>

RECURSIVE SplitSegments(_, _)
SplitSegments(s, cur) ==
    IF s = <<>>
    THEN IF KeepSegment(cur) THEN <<cur>> ELSE <<>>
    ELSE IF Head(s) = Slash
         THEN (IF KeepSegment(cur) THEN <<cur>> ELSE <<>>) \o SplitSegments(Tail(s), <<>>)
         ELSE SplitSegments(Tail(s), Append(cur, Head(s)))

\* Path(s)
Path(s) == [root |-> PathRoot(s), parts |-> SplitSegments(s, <<>>)]

RECURSIVE JoinSegments(_)
JoinSegments(parts) ==
    IF parts = <<>> THEN <<>>
    ELSE IF Len(parts) = 1 THEN parts[1]
    ELSE parts[1] \o <<Slash>> \o JoinSegments(Tail(parts))

\* str(p) and p.as_posix()
AsPosix(p) ==
    IF p.root = <<>> /\ p.parts = <<>> THEN <<Dot>> ELSE p.root \o JoinSegments(p.parts)

\* is_relative_to comparing the written text instead of the segments
IsRelativeToRawPrefix(p, q) == IsPrefix(AsPosix(q), AsPosix(p))

\* is_relative_to comparing the segments but not the roots
IsRelativeToNoRoot(p, q) == IsPrefix(q.parts, p.parts)

\* p.is_relative_to(q)
IsRelativeTo(p, q) == p.root = q.root /\ IsPrefix(q.parts, p.parts)

\* p.relative_to(q), defined when p.is_relative_to(q)
RelativeTo(p, q) ==
    [root |-> <<>>, parts |-> SubSeq(p.parts, Len(q.parts) + 1, Len(p.parts))]

\* d / r for a relative r
JoinPath(d, r) == [root |-> d.root, parts |-> d.parts \o r.parts]

---------------------------------------------------------------------------
(* Replacement tables *)

\* dict[k] = v on an insertion-ordered dict: an existing key keeps its place
RECURSIVE DictSet(_, _, _)
DictSet(d, k, v) ==
    IF d = <<>> THEN << [key |-> k, val |-> v] >>
    ELSE IF Head(d).key = k THEN << [key |-> k, val |-> v] >> \o Tail(d)
    ELSE << Head(d) >> \o DictSet(Tail(d), k, v)

RECURSIVE AddMappings(_, _)
AddMappings(d, mappings) ==
    IF mappings = <<>> THEN d
    ELSE AddMappings(DictSet(d, AsPosix(Head(mappings).source), AsPosix(Head(mappings).target)),
                     Tail(mappings))

\* PathReplacementsConfig.to_dict (no special paths configured); the key
\* "log_no_warnings" is absent and is read as False
to_dict(c) ==
    [target_path_slash |-> c.target_slash, log_no_warnings |-> FALSE,
     entries |-> AddMappings(<<>>, c.mappings)]

\* FilesystemPathConfig.to_dict (no special paths configured)
fs_to_dict(c) ==
    [target_path_slash |-> c.target_slash, log_no_warnings |-> c.log_no_warnings,
     entries |-> AddMappings(<<>>, c.mappings)]

\* index of the first entry, in iteration order, whose source is an ancestor of path
RECURSIVE FirstMatch(_, _, _)
FirstMatch(path, entries, i) ==
    IF i > Len(entries) THEN 0
    ELSE IF IsRelativeTo(path, Path(entries[i].key)) THEN i
    ELSE FirstMatch(path, entries, i + 1)

\* recursive_path_replace on a scalar string
recursive_path_replace(data, replacements) ==
    LET path == Path(data)
        i == FirstMatch(path, replacements.entries, 1)
    IN  IF i > 0
        THEN LET src_path == Path(replacements.entries[i].key)
                 dst_path == Path(replacements.entries[i].val)
                 new_path == JoinPath(dst_path, RelativeTo(path, src_path))
             IN  [value |-> ReplaceSlash(AsPosix(new_path), replacements.target_path_slash),
                  modified_count |-> 1, ignored_count |-> 0]
        ELSE [value |-> data, modified_count |-> 0, ignored_count |-> 1]

NumParentsWithRoot(path) == Len(path.parts) + (IF path.root = "" THEN 0 ELSE 1)

\* len(path.parents)
NumParents(path) == Len(path.parts)

\* the warnings recursive_path_replace logs for a scalar string
path_warnings(data, replacements, log_warnings) ==
    IF /\ FirstMatch(Path(data), replacements.entries, 1) = 0
       /\ log_warnings /\ ~replacements.log_no_warnings
       /\ NumParents(Path(data)) > 1
       /\ ~StartsWith(data, Https)
       /\ ~StartsWith(data, Http)
    THEN 1 ELSE 0

---------------------------------------------------------------------------
(* Configurations *)

SrcPrefixes == {S_a, S_b, S_ab, S_rel_b}
DstPrefixes == {S_b, S_rel_b}
Separators == {Slash, Backslash}

\* PathMapping: both prefixes are held as Path objects
PathMappings == [source : {Path(s) : s \in SrcPrefixes}, target : {Path(s) : s \in DstPrefixes}]

MappingLists == UNION {[1..k -> PathMappings] : k \in 0..MaxMappings}

\* PathReplacementsConfig
PathReplacementsConfigs == [target_slash : Separators, mappings : MappingLists]

\* the configuration the pipeline is run with when only the rewrite is exercised
PlainJobs == [hasDbJob |-> TRUE, idPathFiles |-> 0, otherDb |-> "none"]

\* FilesystemPathConfig of an installation whose paths need no filesystem mapping
DefaultFs == [target_slash |-> Slash, mappings |-> <<>>, log_no_warnings |-> FALSE]

NoResult == [value |-> <<>>, modified_count |-> 0, ignored_count |-> 0]

---------------------------------------------------------------------------
(* MigrationState and the state file *)

PATHS == "step_paths"
ID_PATHS == "step_id_paths"
DB_IDS == "step_db_ids"
DATES == "step_dates"

\* MigrationStep
MigrationStep == {PATHS, ID_PATHS, DB_IDS, DATES}

None == "None"
DbSourcePath == "source/data/jellyfin.db"
DbTargetPath == "target/data/jellyfin.db"

\* MigrationState()
EmptyState ==
    [completed_steps |-> {}, library_db_source_path |-> None, library_db_target_path |-> None]

\* A state file is missing, or holds text that is not JSON (empty, cut short, garbage),
\* bytes that are not UTF-8, a JSON value that is not an object, or a JSON object.
\* The object's "completed_steps" is a list of strings, is absent, or is null/a number.
MissingFile == [kind |-> "missing"]
InvalidJson == [kind |-> "invalid_json"]
NotUtf8 == [kind |-> "not_utf8"]
JsonNonObject == [kind |-> "json_non_object"]

JsonObject(steps_kind, steps, src, tgt) ==
    [kind |-> "json_object", steps_kind |-> steps_kind, completed_steps |-> steps,
     library_db_source_path |-> src, library_db_target_path |-> tgt]

\* MigrationState.load: raised names the exception that escapes, "" when none does
load(file) ==
    IF file.kind = "missing" THEN [raised |-> "", state |-> EmptyState]
    ELSE IF file.kind = "not_utf8" THEN [raised |-> "UnicodeDecodeError", state |-> EmptyState]
    ELSE IF file.kind = "invalid_json" THEN [raised |-> "", state |-> EmptyState]
    ELSE IF file.kind = "json_non_object" THEN [raised |-> "AttributeError", state |-> EmptyState]
    ELSE IF file.steps_kind = "not_iterable" THEN [raised |-> "TypeError", state |-> EmptyState]
    ELSE [raised |-> "",
          state |-> [completed_steps |->
                         IF file.steps_kind = "absent" THEN {}
                         ELSE {st \in file.completed_steps : st \in MigrationStep},
                     library_db_source_path |-> file.library_db_source_path,
                     library_db_target_path |-> file.library_db_target_path]]

is_complete_never(state, step) == FALSE

\* MigrationState.is_complete
is_complete(state, step) == step \in state.completed_steps

SavedFileNothing(state) == MissingFile

\* what MigrationState.save has written once the file is closed
SavedFile(state) ==
    JsonObject("list", state.completed_steps, state.library_db_source_path,
               state.library_db_target_path)

\* open(path, "w") before anything is written: the file is empty
TruncatedFile == InvalidJson

---------------------------------------------------------------------------
(* jellyfin.db: BaseItems (Id is its primary key) and a table referring to items *)

\* runs of characters in code point order, each with the code point of its first
\* character: U+0025 to U+002F, the digits and ":", the capital and the small letters
CodeRuns ==
    << [first |-> 37, chars |-> << "%", "&", "'", "(", ")", "*", "+", ",", "-", ".", "/" >>],
       [first |-> 48, chars |-> << "0", "1", "2", "3", "4", "5", "6", "7", "8", "9", ":" >>],
       [first |-> 65, chars |-> << "A", "B", "C", "D", "E", "F", "G", "H", "I", "J", "K", "L", "M",
                                   "N", "O", "P", "Q", "R", "S", "T", "U", "V", "W", "X", "Y", "Z",
                                   "[", "\\", "]" >>],
       [first |-> 97, chars |-> << "a", "b", "c", "d", "e", "f", "g", "h", "i", "j", "k", "l", "m",
                                   "n", "o", "p", "q", "r", "s", "t", "u", "v", "w", "x", "y",
                                   "z" >>] >>

\* ord(c)
ord(c) ==
    LET run == CodeRuns[CHOOSE r \in 1..Len(CodeRuns) :
                           \E i \in 1..Len(CodeRuns[r].chars) : CodeRuns[r].chars[i] = c]
    IN  run.first + (CHOOSE i \in 1..Len(run.chars) : run.chars[i] = c) - 1

\* s.encode("utf-16-le"): two bytes for a character, the low byte first
RECURSIVE utf_16_le(_)
utf_16_le(s) ==
    IF s = <<>> THEN <<>>
    ELSE << ord(Head(s)) % 256, ord(Head(s)) \div 256 >> \o utf_16_le(Tail(s))

\* hashlib.md5(...).digest(), taken as injective on the bytes it is given
md5(bytes) == [md5 |-> bytes]

\* get_dotnet_md5: the digest of the text's UTF-16-LE encoding
get_dotnet_md5(s) == md5(utf_16_le(s))

ItemType == <<"M">>
S_aa == <<"/", "a", "/", "a">>
S_bb == <<"/", "b", "/", "b">>
S_ba == <<"/", "b", "/", "a">>

\* seconds since the epoch of the unset-date sentinel and of a date after the epoch;
\* the file's st_ctime_ns and st_mtime_ns
InvalidDate == -1
ValidDate == 5
FileCTime == 7
FileMTime == 8

\* nanoseconds in a second, at the scale of one fractional digit
NsPerSecond == 10

\* a stored date: NULL, or the text of a date and time, with or without a fractional
\* part, followed by nothing, by "Z" or by "+00:00"
NullDate == [null |-> TRUE, seconds |-> 0, has_frac |-> FALSE, frac |-> 0, zone |-> ""]
DateText(seconds, has_frac, frac, zone) ==
    [null |-> FALSE, seconds |-> seconds, has_frac |-> has_frac, frac |-> frac, zone |-> zone]
PlainDate(seconds) == DateText(seconds, FALSE, 0, "")

\* jellyfin_date_to_ns: "+00:00" is appended to whatever stands before the last ".",
\* so a text without fractional part parses only if no zone follows the seconds
jellyfin_date_to_ns(date_str) ==
    IF date_str.null THEN [raised |-> "TypeError", ns |-> 0]
    ELSE IF ~date_str.has_frac /\ date_str.zone # "" THEN [raised |-> "ValueError", ns |-> 0]
    ELSE [raised |-> "", ns |-> date_str.seconds * NsPerSecond + date_str.frac]

\* ns_to_jellyfin_date: the fractional part is left out when it is zero
ns_to_jellyfin_date(time_ns) ==
    DateText(time_ns \div NsPerSecond, time_ns % NsPerSecond # 0, time_ns % NsPerSecond, "Z")

BaseItem(path, created, modified) ==
    [Id |-> get_dotnet_md5(ItemType \o path), type |-> ItemType, Path |-> path,
     DateCreated |-> created, DateModified |-> modified]

\* the database of the installation that is migrated
SourceDb ==
    [exists |-> TRUE,
     BaseItems |-> << BaseItem(S_aa, PlainDate(InvalidDate), PlainDate(ValidDate)),
                      BaseItem(S_bb, PlainDate(ValidDate), PlainDate(ValidDate)) >>,
     Refs |-> << [ItemId |-> get_dotnet_md5(ItemType \o S_aa)],
                 [ItemId |-> get_dotnet_md5(ItemType \o S_bb)] >>]

NoDb == [exists |-> FALSE, BaseItems |-> <<>>, Refs |-> <<>>]

\* media files found on the target host, by their absolute paths; nothing lies under
\* the target root at the relative paths a row may hold
MediaFiles == {S_ba, S_bb}
MetadataFile == "metadata/poster.jpg"
OtherDbFile == "data/library.db"

RECURSIVE SumTo(_, _)
SumTo(f, n) == IF n = 0 THEN 0 ELSE f[n] + SumTo(f, n - 1)

\* update_db_table for one path column: the rows after the commit, and the counts
update_db_table(rows, column, replacements) ==
    LET res == [i \in 1..Len(rows) |-> recursive_path_replace(rows[i][column], replacements)]
        has == [i \in 1..Len(rows) |-> rows[i][column] # <<>>]
    IN  [rows |-> [i \in 1..Len(rows) |->
                      IF has[i] THEN [rows[i] EXCEPT ![column] = res[i].value] ELSE rows[i]],
         calls |-> SumTo([i \in 1..Len(rows) |-> IF has[i] THEN 1 ELSE 0], Len(rows)),
         modified |-> SumTo([i \in 1..Len(rows) |-> IF has[i] THEN res[i].modified_count ELSE 0],
                            Len(rows))]

DictHas(d, k) == \E i \in 1..Len(d) : d[i].key = k
DictGet(d, k) == d[CHOOSE i \in 1..Len(d) : d[i].key = k].val

\* the digest of the path alone
new_guid_of_path(item_type, path) == get_dotnet_md5(path)

\* new_guid of get_id_replacements_from_db: the digest of item_type + path
new_guid(item_type, path) == get_dotnet_md5(item_type \o path)

\* the loop left at the first row without a path
RECURSIVE get_id_replacements_until_skip(_)
get_id_replacements_until_skip(rows) ==
    IF rows = <<>> THEN <<>>
    ELSE LET before == get_id_replacements_until_skip(SubSeq(rows, 1, Len(rows) - 1))
             skipped == \E i \in 1..Len(rows) :
                           rows[i].Path = <<>> \/ Head(rows[i].Path) = "%"
             row == rows[Len(rows)]
         IN  IF skipped THEN before
             ELSE IF new_guid(row.type, row.Path) # row.Id
             THEN DictSet(before, row.Id, new_guid(row.type, row.Path))
             ELSE before

\* get_id_replacements_from_db: old Id -> new Id for every row whose Id is not the
\* digest of its type and path
RECURSIVE get_id_replacements_from_db(_)
get_id_replacements_from_db(rows) ==
    IF rows = <<>> THEN <<>>
    ELSE LET before == get_id_replacements_from_db(SubSeq(rows, 1, Len(rows) - 1))
             row == rows[Len(rows)]
         IN  IF row.Path = <<>> \/ Head(row.Path) = "%" THEN before
             ELSE IF new_guid(row.type, row.Path) # row.Id
             THEN DictSet(before, row.Id, new_guid(row.type, row.Path))
             ELSE before

\* IdReplacements.from_binary_replacements, the binary projection
from_binary_replacements(bin_replacements) == [is_none |-> FALSE, bin |-> bin_replacements]

\* ctx.id_replacements before it is assigned
NoneIds == [is_none |-> TRUE, bin |-> <<>>]

\* not ctx.id_replacements: None, or an IdReplacements of length 0
NoIdReplacements(r) == r.is_none \/ Len(r.bin) = 0

\* SELECT DISTINCT column, in row order
RECURSIVE DistinctValues(_, _)
DistinctValues(rows, column) ==
    IF rows = <<>> THEN <<>>
    ELSE LET before == DistinctValues(SubSeq(rows, 1, Len(rows) - 1), column)
             v == rows[Len(rows)][column]
         IN  IF \E i \in 1..Len(before) : before[i] = v THEN before ELSE Append(before, v)

RECURSIVE Without(_, _, _)
Without(rows, column, v) ==
    IF rows = <<>> THEN <<>>
    ELSE IF Head(rows)[column] = v THEN Without(Tail(rows), column, v)
    ELSE << Head(rows) >> \o Without(Tail(rows), column, v)

\* _update_column_ids over the values read at its start
RECURSIVE UpdateValues(_, _, _, _, _)
UpdateValues(acc, values, column, replacements, unique) ==
    IF values = <<>> THEN acc
    ELSE LET old_id == Head(values)
             rows == acc.rows
             hit == {i \in 1..Len(rows) : rows[i][column] = old_id}
         IN  IF ~DictHas(replacements, old_id)
             THEN UpdateValues(acc, Tail(values), column, replacements, unique)
             ELSE LET new_id == DictGet(replacements, old_id)
                      integrity_error ==
                          /\ unique
                          /\ hit # {}
                          /\ \/ Cardinality(hit) > 1
                             \/ \E i \in 1..Len(rows) : i \notin hit /\ rows[i][column] = new_id
                  IN  IF integrity_error
                      THEN UpdateValues([rows |-> Without(rows, column, old_id),
                                         updated |-> acc.updated,
                                         duplicates |-> acc.duplicates + Cardinality(hit)],
                                        Tail(values), column, replacements, unique)
                      ELSE UpdateValues([rows |-> [i \in 1..Len(rows) |->
                                                      IF i \in hit
                                                      THEN [rows[i] EXCEPT ![column] = new_id]
                                                      ELSE rows[i]],
                                         updated |-> acc.updated + 1,
                                         duplicates |-> acc.duplicates],
                                        Tail(values), column, replacements, unique)

update_column_ids(rows, column, replacements, unique) ==
    UpdateValues([rows |-> rows, updated |-> 0, duplicates |-> 0],
                 DistinctValues(rows, column), column, replacements, unique)

\* update_db_table_ids for one binary column: the rows after the commit
update_db_table_ids(rows, column, id_replacements, unique) ==
    IF Len(id_replacements.bin) = 0 THEN rows
    ELSE update_column_ids(rows, column, id_replacements.bin, unique).rows

\* update_file_dates, one row: skipped, updated, or an exception that escapes
update_dates_row_both(row) ==
    LET fs_path == Path(recursive_path_replace(row.Path, fs_to_dict(DefaultFs)).value)
        exists == fs_path.root # <<>> /\ fs_path \in {Path(m) : m \in MediaFiles}
    IN  IF row.Path = <<>> \/ ~exists \/ row.DateCreated.null \/ row.DateModified.null
        THEN [raised |-> "", written |-> FALSE, row |-> row]
        ELSE [raised |-> "", written |-> TRUE,
              row |-> [row EXCEPT !.DateCreated = ns_to_jellyfin_date(FileCTime),
                                  !.DateModified = ns_to_jellyfin_date(FileMTime)]]

update_dates_row(row) ==
    LET fs_path == Path(recursive_path_replace(row.Path, fs_to_dict(DefaultFs)).value)
        exists == fs_path.root # <<>> /\ fs_path \in {Path(m) : m \in MediaFiles}
        created == jellyfin_date_to_ns(row.DateCreated)
        modified == jellyfin_date_to_ns(row.DateModified)
        skip == [raised |-> "", written |-> FALSE, row |-> row]
    IN  IF row.Path = <<>> \/ ~exists THEN skip
        ELSE IF created.raised = "TypeError" THEN [skip EXCEPT !.raised = "TypeError"]
        ELSE IF created.raised = "ValueError" THEN skip
        ELSE IF modified.raised = "TypeError" THEN [skip EXCEPT !.raised = "TypeError"]
        ELSE IF modified.raised = "ValueError" THEN skip
        ELSE IF created.ns >= 0 /\ modified.ns >= 0 THEN skip
        ELSE [raised |-> "", written |-> TRUE,
              row |-> [row EXCEPT
                         !.DateCreated = IF created.ns < 0
                                         THEN ns_to_jellyfin_date(FileCTime) ELSE @,
                         !.DateModified = IF modified.ns < 0
                                          THEN ns_to_jellyfin_date(FileMTime) ELSE @]]

\* update_file_dates: the rows after the commit, or the exception that escaped
\* before it
update_file_dates(rows) ==
    IF \E i \in 1..Len(rows) : update_dates_row(rows[i]).raised # ""
    THEN [raised |-> "TypeError", rows |-> rows]
    ELSE [raised |-> "", rows |-> [i \in 1..Len(rows) |-> update_dates_row(rows[i]).row]]

---------------------------------------------------------------------------
(* recursive_id_path_replace: identifiers inside file paths *)

HexChars == {"0", "1", "2", "3", "4", "5", "6", "7", "8", "9", "a", "b", "c", "d", "e", "f", "-"}

\* _is_potential_id
is_potential_id(seg) == \A i \in 1..Len(seg) : seg[i] \in HexChars

\* PurePath.name
Name(path) == IF path.parts = <<>> THEN <<>> ELSE path.parts[Len(path.parts)]

\* name.rfind("."), counted from 1; 0 when there is no dot
LastDot(name) ==
    IF \E i \in 1..Len(name) : name[i] = Dot
    THEN CHOOSE i \in 1..Len(name) :
            name[i] = Dot /\ \A j \in (i + 1)..Len(name) : name[j] # Dot
    ELSE 0

HasSuffix(name) == 1 < LastDot(name) /\ LastDot(name) < Len(name)

\* PurePath.stem and PurePath.suffix
Stem(name) == IF HasSuffix(name) THEN SubSeq(name, 1, LastDot(name) - 1) ELSE name
Suffix(name) == IF HasSuffix(name) THEN SubSeq(name, LastDot(name), Len(name)) ELSE <<>>

\* id_replacements.get(key, "")
IdGet(id_replacements, key) ==
    IF DictHas(id_replacements.entries, key) THEN DictGet(id_replacements.entries, key)
    ELSE <<>>

Take(s, n) == SubSeq(s, 1, IF n < Len(s) THEN n ELSE Len(s))

\* _replace_id_in_path: the deepest segment named old_id is renamed, and the folder
\* above it when its name begins old_id; with_name raises on the empty name of "/" or "."
replace_id_in_path(path, old_id, new_id) ==
    LET parts == path.parts
        k == CHOOSE i \in 1..Len(parts) :
                parts[i] = old_id /\ \A j \in (i + 1)..Len(parts) : parts[j] # old_id
        parent_name == IF k > 1 THEN parts[k - 1] ELSE <<>>
    IN  IF ~IsPrefix(parent_name, old_id)
        THEN [raised |-> "", path |-> [path EXCEPT !.parts[k] = new_id]]
        ELSE IF parent_name = <<>>
        THEN [raised |-> "ValueError", path |-> path]
        ELSE [raised |-> "",
              path |-> [path EXCEPT !.parts[k] = new_id,
                                    !.parts[k - 1] = Take(new_id, Len(parent_name))]]

\* recursive_id_path_replace on a scalar string: raised names the exception that
\* escapes, "" when none does
recursive_id_path_replace(data, id_replacements) ==
    LET path == Path(data)
        parts == path.parts
        stem == Stem(Name(path))
        first == {i \in 1..(Len(parts) - 1) :
                     /\ is_potential_id(parts[i])
                     /\ IdGet(id_replacements, parts[i]) # <<>>
                     /\ \A j \in 1..(i - 1) :
                           ~is_potential_id(parts[j]) \/ IdGet(id_replacements, parts[j]) = <<>>}
        Found(new_path) ==
            [raised |-> "",
             value |-> ReplaceSlash(AsPosix(new_path), id_replacements.target_path_slash),
             modified_count |-> 1, ignored_count |-> 0]
    IN  IF is_potential_id(stem) /\ IdGet(id_replacements, stem) # <<>>
        THEN Found([path EXCEPT !.parts[Len(parts)] =
                                    IdGet(id_replacements, stem) \o Suffix(Name(path))])
        ELSE IF first = {}
        THEN [raised |-> "", value |-> data, modified_count |-> 0, ignored_count |-> 1]
        ELSE LET k == CHOOSE i \in first : TRUE
                 r == replace_id_in_path(path, parts[k], IdGet(id_replacements, parts[k]))
             IN  IF r.raised # ""
                 THEN [raised |-> r.raised, value |-> data, modified_count |-> 0,
                       ignored_count |-> 0]
                 ELSE Found(r.path)

---------------------------------------------------------------------------
(* The process before cmd_migrate is entered *)

NotLoaded == [called |-> FALSE, raised |-> "", state |-> EmptyState]

\* MigrationContext before it is constructed
NoCtx ==
    [state |-> EmptyState, library_db_source_path |-> None,
     library_db_target_path |-> None, id_replacements |-> NoneIds]

At(step, at) == [step |-> step, at |-> at]
Idle == At("", "idle")
Done == At("", "done")
Aborted == At("", "aborted")

NoCalc == [paths_applied |-> FALSE, ids_applied |-> FALSE]

\* what has happened so far; saved is what the state file listed when it was last
\* written to its end since the last reset
NoHist ==
    [runs |-> 0, resets |-> 0, crashes |-> <<>>, listed |-> {}, started |-> <<>>,
     worked |-> {}, rewrites |-> 0, calcs |-> 0, calc_from |-> NoCalc, abort |-> "",
     saved |-> {}]

\* no operation is applied on its own
NoCall == [op |-> "", stage |-> 0]

PipelineIdle ==
    /\ stateFile = MissingFile
    /\ loaded = NotLoaded
    /\ ctx = NoCtx
    /\ pc = Idle
    /\ db = NoDb
    /\ tgtFiles = {}
    /\ hist = NoHist
    /\ call = NoCall

---------------------------------------------------------------------------
(* The plain rewrite applied to a value, and again to what it returned *)

Mp(s, t) == [source |-> Path(s), target |-> Path(t)]

DefaultConfig ==
    [path_replacements |-> [target_slash |-> Slash, mappings |-> << Mp(S_a, S_b) >>],
     fs_path_replacements |-> DefaultFs, jobs |-> PlainJobs]

\* no value is under rewrite; the rewrite is called as the steps call it, with the
\* path table and log_warnings left at its default
RwIdle ==
    [data |-> <<>>, input |-> <<>>, result |-> NoResult, prev |-> NoResult, stage |-> 0,
     table |-> "path", log_warnings |-> TRUE, warned |-> 0]

InitRewrite ==
    /\ \E pr \in PathReplacementsConfigs :
          config = [path_replacements |-> pr, fs_path_replacements |-> DefaultFs,
                    jobs |-> PlainJobs]
    /\ \E v \in StringsUpTo(MaxLen) :
          rw = [RwIdle EXCEPT !.data = v, !.input = v]
    /\ PipelineIdle

\* the table handed to the rewrite: path_replacements.to_dict() or
\* fs_path_replacements.to_dict()
Replacements ==
    IF rw.table = "fs" THEN fs_to_dict(config.fs_path_replacements)
    ELSE to_dict(config.path_replacements)

\* one call of recursive_path_replace(rw.data, replacements, log_warnings)
ApplyRewrite ==
    /\ rw.stage < 2
    /\ LET res == recursive_path_replace(rw.data, Replacements)
       IN  rw' = [rw EXCEPT !.data = res.value, !.input = rw.data, !.result = res,
                            !.prev = rw.result, !.stage = rw.stage + 1,
                            !.warned = path_warnings(rw.data, Replacements, rw.log_warnings)]
    /\ UNCHANGED <<config, call, stateFile, loaded, ctx, pc, db, tgtFiles, hist>>

NextRewrite == ApplyRewrite

SpecRewrite == InitRewrite /\ [][NextRewrite]_vars

---------------------------------------------------------------------------
(* The plain rewrite and its warning, for values with and without a scheme prefix *)

WarnMappings == { <<>>, << [source |-> Path(S_a), target |-> Path(S_b)] >> }

InitWarn ==
    /\ \E m \in WarnMappings, nw \in BOOLEAN :
          config = [path_replacements |-> [target_slash |-> Slash, mappings |-> m],
                    fs_path_replacements |->
                        [target_slash |-> Slash, mappings |-> m, log_no_warnings |-> nw],
                    jobs |-> PlainJobs]
    /\ \E v \in ValuesUpTo(MaxLen), t \in {"path", "fs"}, lw \in BOOLEAN :
          rw = [RwIdle EXCEPT !.data = v, !.input = v, !.table = t, !.log_warnings = lw]
    /\ PipelineIdle

NextWarn == ApplyRewrite

SpecWarn == InitWarn /\ [][NextWarn]_vars

---------------------------------------------------------------------------
(* recursive_id_path_replace applied to a path *)

\* longest path handed to the identifier rewrite
MaxIdPathLen == 7

\* characters of those paths: the separator, two hexadecimal digits, one other letter
IdPathAlphabet == {"/", "a", "b", "x"}

IdPathsUpTo(n) == UNION {[1..k -> IdPathAlphabet] : k \in 0..n}

\* old identifier -> new identifier, as IdReplacements.get_path_replacements gives them
Id_ab == <<"a", "b">>
Id_ba == <<"b", "a">>
Id_bb == <<"b", "b">>
Id_aa == <<"a", "a">>
IdPathTables ==
    { << [key |-> Id_ab, val |-> Id_ba] >>,
      << [key |-> Id_ab, val |-> Id_ba], [key |-> Id_bb, val |-> Id_aa] >> }

InitIdPath ==
    /\ config = DefaultConfig
    /\ rw = RwIdle
    /\ \E v \in IdPathsUpTo(MaxIdPathLen)
                  \cup {w \o <<Dot, "x">> : w \in IdPathsUpTo(MaxIdPathLen - 2)},
          t \in IdPathTables :
          call = [op |-> "recursive_id_path_replace", stage |-> 0, data |-> v,
                  id_replacements |-> [target_path_slash |-> Slash, entries |-> t],
                  result |-> [raised |-> "", value |-> <<>>, modified_count |-> 0,
                              ignored_count |-> 0]]
    /\ stateFile = MissingFile
    /\ loaded = NotLoaded
    /\ ctx = NoCtx
    /\ pc = Idle
    /\ db = NoDb
    /\ tgtFiles = {}
    /\ hist = NoHist

\* one call of recursive_id_path_replace(call.data, call.id_replacements)
ApplyIdPath ==
    /\ call.op = "recursive_id_path_replace"
    /\ call.stage = 0
    /\ call' = [call EXCEPT !.stage = 1,
                            !.result = recursive_id_path_replace(call.data, call.id_replacements)]
    /\ UNCHANGED <<config, rw, stateFile, loaded, ctx, pc, db, tgtFiles, hist>>

NextIdPath == ApplyIdPath

SpecIdPath == InitIdPath /\ [][NextIdPath]_vars

---------------------------------------------------------------------------
(* MigrationState.load applied to whatever the state file holds *)

\* step identifiers found in a file: the four of MigrationStep and one of another version
FileStepIds == MigrationStep \cup {"step_verify"}

StateFiles ==
    {MissingFile, InvalidJson, NotUtf8, JsonNonObject}
    \cup {JsonObject("list", steps, src, tgt) :
             steps \in SUBSET FileStepIds, src \in {None, DbSourcePath}, tgt \in {None, DbTargetPath}}
    \cup {JsonObject(k, {}, src, tgt) :
             k \in {"absent", "not_iterable"}, src \in {None, DbSourcePath},
             tgt \in {None, DbTargetPath}}

InitLoad ==
    /\ config = DefaultConfig
    /\ rw = RwIdle
    /\ stateFile \in StateFiles
    /\ loaded = NotLoaded
    /\ ctx = NoCtx
    /\ pc = Idle
    /\ db = NoDb
    /\ tgtFiles = {}
    /\ hist = NoHist
    /\ call = NoCall

\* MigrationState.load(state_file)
LoadFile ==
    /\ ~loaded.called
    /\ loaded' = [called |-> TRUE, raised |-> load(stateFile).raised,
                  state |-> load(stateFile).state]
    /\ UNCHANGED <<config, rw, call, stateFile, ctx, pc, db, tgtFiles, hist>>

NextLoad == LoadFile

SpecLoad == InitLoad /\ [][NextLoad]_vars

---------------------------------------------------------------------------
(* update_db_table and update_db_table_ids on one table, statement by statement *)

\* most rows of a table
MaxRows == 3

\* identifiers held by an identifier column; those a replacement dict may have as
\* keys, in the order the dict is built in
Ids == {"A", "B", "C", "D"}
IdList == <<"A", "B", "C">>

\* the replacement dict that maps each identifier k of IdList to g[k], or leaves it out
RECURSIVE IdDict(_, _)
IdDict(g, i) ==
    IF i = 0 THEN <<>>
    ELSE IF g[i] = None THEN IdDict(g, i - 1)
    ELSE DictSet(IdDict(g, i - 1), IdList[i], g[i])

IdDicts ==
    {IdDict(g, Len(IdList)) :
        g \in {h \in [DOMAIN IdList -> Ids \cup {None}] : \A i \in DOMAIN IdList : h[i] # IdList[i]}}

\* tables of an identifier column: with a uniqueness constraint no value repeats
IdTables(unique) ==
    {[i \in DOMAIN f |-> [rowid |-> i, Id |-> f[i]]] :
        f \in {h \in UNION {[1..k -> Ids] : k \in 0..MaxRows} :
                  unique => \A i, j \in DOMAIN h : h[i] = h[j] => i = j}}

\* the id columns of a DatabaseIdTableConfig: the second one is not in the table
IdColumnLists == { <<"Id">>, <<"Id", "Missing">> }

\* a JSON column: NULL or '', text that is not JSON, or a JSON string, either as
\* json.dumps writes it or with its solidus escaped
NoData == [kind |-> "empty"]
NotJson == [kind |-> "invalid"]
JsonText(form, value) == [kind |-> "json", form |-> form, value |-> value]
json_loads(cell) == cell.value
json_dumps(value) == JsonText("dumps", value)

PathCells == {<<>>, S_a, S_b}
JsonCells == {NoData, NotJson, JsonText("dumps", S_b), JsonText("escaped", S_a)}

\* tables with one path column and one JSON column
PathTables ==
    {[i \in DOMAIN f |-> [rowid |-> i, Path |-> f[i][1], Data |-> f[i][2]]] :
        f \in UNION {[1..k -> PathCells \X JsonCells] : k \in 0..MaxRows}}

\* dates as BaseItems may hold them
DateTexts ==
    {NullDate}
    \cup {DateText(sec, f[1], f[2], zone) :
             sec \in {InvalidDate, ValidDate}, f \in {<<FALSE, 0>>, <<TRUE, 0>>, <<TRUE, 5>>},
             zone \in {"", "Z", "+00:00"}}

\* tables of items with dates: any one item, alone or next to an item whose file exists
DateTables ==
    LET any == {BaseItem(path, created, modified) :
                   path \in {<<>>, S_aa, S_ba}, created \in DateTexts, modified \in DateTexts}
        others == {BaseItem(S_bb, NullDate, PlainDate(ValidDate)),
                   BaseItem(S_bb, PlainDate(InvalidDate), PlainDate(InvalidDate))}
    IN  {<<r>> : r \in any} \cup {<<r, o>> : r \in any, o \in others}
        \cup {<<o, r>> : r \in any, o \in others}

\* sqlite3.connect(db_path): statements that change rows open a transaction
\* that lasts until commit
connect_autocommit == [autocommit |-> TRUE]
connect == [autocommit |-> FALSE]

\* what the database file holds once a statement has been executed
AfterStatement(disk, txn) == IF connect.autocommit THEN txn ELSE disk

\* every order SELECT DISTINCT may return the values of a column in
DistinctOrders(rows, column) ==
    LET values == {rows[i][column] : i \in 1..Len(rows)}
    IN  {f \in [1..Cardinality(values) -> values] :
            \A i, j \in DOMAIN f : f[i] = f[j] => i = j}

\* one row of update_db_table: the configured columns rewritten, the columns put
\* in `result`, and the counts
update_row(row, replacements) ==
    LET json_hit == row.Data.kind = "json"
        json_res == recursive_path_replace(json_loads(row.Data), replacements)
        path_hit == row.Path # <<>>
        path_res == recursive_path_replace(row.Path, replacements)
    IN  [row |-> [row EXCEPT !.Data = IF json_hit THEN json_dumps(json_res.value) ELSE @,
                             !.Path = IF path_hit THEN path_res.value ELSE @],
         result |-> (IF json_hit THEN {"Data"} ELSE {}) \cup (IF path_hit THEN {"Path"} ELSE {}),
         modified |-> (IF json_hit THEN json_res.modified_count ELSE 0)
                      + (IF path_hit THEN path_res.modified_count ELSE 0),
         ignored |-> (IF json_hit THEN json_res.ignored_count ELSE 0)
                     + (IF path_hit THEN path_res.ignored_count ELSE 0)]

TableCall(op, rows) ==
    [op |-> op, stage |-> "open", before |-> rows, disk |-> rows, txn |-> rows,
     todo |-> <<>>, columns |-> <<>>, unique |-> FALSE, replacements |-> <<>>,
     updated |-> 0, duplicates |-> 0, modified |-> 0, ignored |-> 0,
     written |-> {}, raised |-> ""]

InitTable ==
    /\ config = DefaultConfig
    /\ rw = RwIdle
    /\ \/ \E unique \in BOOLEAN :
            \E rows \in IdTables(unique), r \in IdDicts, columns \in IdColumnLists :
               call = [TableCall("update_db_table_ids", rows) EXCEPT
                          !.unique = unique, !.replacements = r, !.columns = columns]
       \/ \E rows \in PathTables :
               call = [TableCall("update_db_table", rows) EXCEPT !.columns = <<"Data", "Path">>]
       \/ \E rows \in DateTables :
               call = [TableCall("update_file_dates", rows) EXCEPT
                          !.columns = <<"DateCreated", "DateModified">>]
    /\ stateFile = MissingFile
    /\ loaded = NotLoaded
    /\ ctx = NoCtx
    /\ pc = Idle
    /\ db = NoDb
    /\ tgtFiles = {}
    /\ hist = NoHist

TableFrame == UNCHANGED <<config, rw, stateFile, loaded, ctx, pc, db, tgtFiles, hist>>

\* update_db_table: SELECT rowid FROM table
SelectRowIds ==
    /\ call.op = "update_db_table"
    /\ call.stage = "open"
    /\ call' = [call EXCEPT !.stage = "rows", !.todo = [i \in 1..Len(call.txn) |-> i]]
    /\ TableFrame

\* update_db_table: one row read, rewritten and, if `result` is not empty, updated
UpdateRow ==
    /\ call.op = "update_db_table"
    /\ call.stage = "rows"
    /\ call.todo # <<>>
    /\ LET rowid == Head(call.todo)
           u == update_row(call.txn[rowid], to_dict(config.path_replacements))
           txn == IF u.result # {} THEN [call.txn EXCEPT ![rowid] = u.row] ELSE call.txn
       IN  call' = [call EXCEPT !.todo = Tail(@), !.txn = txn,
                                !.disk = AfterStatement(@, txn),
                                !.modified = @ + u.modified, !.ignored = @ + u.ignored,
                                !.written = IF u.result # {} THEN @ \cup {rowid} ELSE @]
    /\ TableFrame

\* update_file_dates: SELECT rowid, Path, DateCreated, DateModified FROM table
SelectDates ==
    /\ call.op = "update_file_dates"
    /\ call.stage = "open"
    /\ call' = [call EXCEPT !.stage = "rows", !.todo = [i \in 1..Len(call.txn) |-> i]]
    /\ TableFrame

\* update_file_dates: one row skipped or updated; an exception that is not caught
\* leaves the loop, and the connection is closed uncommitted
UpdateDates ==
    /\ call.op = "update_file_dates"
    /\ call.stage = "rows"
    /\ call.todo # <<>>
    /\ LET rowid == Head(call.todo)
           u == update_dates_row(call.before[rowid])
           txn == [call.txn EXCEPT ![rowid] = u.row]
       IN  IF u.raised # ""
           THEN call' = [call EXCEPT !.stage = "raised", !.raised = u.raised,
                                     !.txn = call.disk]
           ELSE call' = [call EXCEPT !.todo = Tail(@), !.txn = txn,
                                     !.disk = AfterStatement(@, txn),
                                     !.updated = @ + (IF u.written THEN 1 ELSE 0),
                                     !.written = IF u.written THEN @ \cup {rowid} ELSE @]
    /\ TableFrame

\* update_db_table_ids: the next column of the configuration; SELECT DISTINCT raises
\* for a column the table does not have, and the connection is closed uncommitted
SelectDistinct ==
    /\ call.op = "update_db_table_ids"
    /\ call.stage \in {"open", "column"}
    /\ call.columns # <<>>
    /\ call.replacements # <<>>
    /\ IF Head(call.columns) = "Missing"
       THEN call' = [call EXCEPT !.stage = "raised", !.raised = "OperationalError",
                                 !.txn = call.disk]
       ELSE \E order \in DistinctOrders(call.txn, Head(call.columns)) :
               call' = [call EXCEPT !.stage = "rows", !.todo = order]
    /\ TableFrame

\* _update_column_ids: one value of the column, updated or deleted
UpdateValue ==
    /\ call.op = "update_db_table_ids"
    /\ call.stage = "rows"
    /\ call.todo # <<>>
    /\ LET acc == UpdateValues([rows |-> call.txn, updated |-> call.updated,
                                duplicates |-> call.duplicates],
                               << Head(call.todo) >>, Head(call.columns),
                               call.replacements, call.unique)
       IN  call' = [call EXCEPT !.todo = Tail(@), !.txn = acc.rows,
                                !.disk = AfterStatement(@, acc.rows),
                                !.updated = acc.updated, !.duplicates = acc.duplicates]
    /\ TableFrame

\* _update_column_ids returns
ColumnDone ==
    /\ call.op = "update_db_table_ids"
    /\ call.stage = "rows"
    /\ call.todo = <<>>
    /\ call' = [call EXCEPT !.stage = "column", !.columns = Tail(@)]
    /\ TableFrame

\* con.commit() and con.close()
Commit ==
    /\ \/ /\ call.op \in {"update_db_table", "update_file_dates"}
          /\ call.stage = "rows"
          /\ call.todo = <<>>
       \/ /\ call.op = "update_db_table_ids"
          /\ call.stage \in {"open", "column"}
          /\ call.columns = <<>> \/ call.replacements = <<>>
    /\ call' = [call EXCEPT !.stage = "committed", !.disk = call.txn]
    /\ TableFrame

\* the process is killed before the commit: the open transaction is lost
Kill ==
    /\ call.op \in {"update_db_table", "update_db_table_ids", "update_file_dates"}
    /\ call.stage \in {"open", "rows", "column"}
    /\ call' = [call EXCEPT !.stage = "killed", !.txn = call.disk]
    /\ TableFrame

NextTable ==
    \/ SelectRowIds
    \/ UpdateRow
    \/ SelectDates
    \/ UpdateDates
    \/ SelectDistinct
    \/ UpdateValue
    \/ ColumnDone
    \/ Commit
    \/ Kill

SpecTable == InitTable /\ [][NextTable]_vars

---------------------------------------------------------------------------
(* resolve_target_path: where a job's file is written *)

\* the two mode keywords
Auto == <<"a", "u", "t", "o">>
AutoExisting == Auto \o <<"-", "e", "x", "i", "s", "t", "i", "n", "g">>

\* str.startswith(prefix) for a prefix of several characters
startswith(data, prefix) == IsPrefix(prefix, data)

\* p.is_absolute() on a POSIX host
is_absolute(p) == p.root # <<>>

resolve_target_path(source, target, source_root, original_root, target_root, path_replacements, fs_path_replacements) ==
    IF startswith(target, Auto)
    THEN LET original_source ==
                 IF IsRelativeTo(source, source_root)
                 THEN JoinPath(original_root, RelativeTo(source, source_root))
                 ELSE source
             path_str == recursive_path_replace(AsPosix(original_source),
                                                path_replacements).value
             target_str == recursive_path_replace(path_str, fs_path_replacements).value
             resolved == Path(target_str)
             below_root == IF IsRelativeTo(resolved, Path(<<Slash>>))
                           THEN RelativeTo(resolved, Path(<<Slash>>))
                           ELSE resolved
         IN  [path |-> IF is_absolute(resolved) THEN resolved
                       ELSE JoinPath(target_root, below_root),
              skip_copy |-> target = AutoExisting]
    ELSE [path |-> Path(target), skip_copy |-> FALSE]

\* target strings of a job: the keywords, strings that begin with one, other paths
Targets ==
    {Auto, AutoExisting, Auto \o <<"s">>, Auto \o <<"/", "b">>, AutoExisting \o <<"/", "b">>}
    \cup StringsUpTo(2)

\* files of a job, the source root they are found under, the root of the original
\* installation and the root the migration writes to
ResolveSources == {Path(S_ab), Path(S_a), Path(S_ba), Path(<<"a", "/", "b">>)}
SourceRoot == Path(S_a)
OriginalRoot == Path(S_b)
TargetRoot == Path(S_aa)

ResolvePathTables ==
    {[target_slash |-> sep, mappings |-> m] :
        sep \in Separators,
        m \in {<<>>, << Mp(S_b, S_a) >>, << Mp(S_b, S_rel_b) >>}}

ResolveFsTables ==
    {[target_slash |-> sep, mappings |-> m, log_no_warnings |-> FALSE] :
        sep \in Separators,
        m \in {<<>>, << Mp(S_a, S_bb) >>, << Mp(S_rel_b, S_a) >>}}

InitResolve ==
    /\ \E pr \in ResolvePathTables, fs \in ResolveFsTables :
          config = [path_replacements |-> pr, fs_path_replacements |-> fs, jobs |-> PlainJobs]
    /\ rw = RwIdle
    /\ \E source \in ResolveSources, target \in Targets :
          call = [op |-> "resolve_target_path", stage |-> 0, source |-> source,
                  target |-> target,
                  result |-> [path |-> Path(<<>>), skip_copy |-> FALSE]]
    /\ stateFile = MissingFile
    /\ loaded = NotLoaded
    /\ ctx = NoCtx
    /\ pc = Idle
    /\ db = NoDb
    /\ tgtFiles = {}
    /\ hist = NoHist

\* one call of resolve_target_path, as process_jobs makes it
ApplyResolve ==
    /\ call.op = "resolve_target_path"
    /\ call.stage = 0
    /\ call' = [call EXCEPT
                  !.stage = 1,
                  !.result = resolve_target_path(call.source, call.target, SourceRoot,
                                                 OriginalRoot, TargetRoot,
                                                 to_dict(config.path_replacements),
                                                 fs_to_dict(config.fs_path_replacements))]
    /\ UNCHANGED <<config, rw, stateFile, loaded, ctx, pc, db, tgtFiles, hist>>

NextResolve == ApplyResolve

SpecResolve == InitResolve /\ [][NextResolve]_vars

---------------------------------------------------------------------------
(* cmd_migrate and run_migration, one process at a time, killed at any point *)

\* most runs of the program, and most kills, in one behaviour
MaxRuns == 3
MaxCrashes == 2

PipelineTables == { <<>>, << Mp(S_a, S_b) >>, << Mp(S_a, S_b), Mp(S_b, S_rel_b) >> }

PipelineConfigs ==
    {[path_replacements |-> [target_slash |-> Slash, mappings |-> m],
      fs_path_replacements |-> DefaultFs,
      jobs |-> [hasDbJob |-> h, idPathFiles |-> n, otherDb |-> "none"]] :
        m \in PipelineTables, h \in BOOLEAN, n \in {0, 1}}

Init ==
    /\ config \in PipelineConfigs
    /\ rw = RwIdle
    /\ PipelineIdle

StepAfter(step) ==
    IF step = PATHS THEN At("", "calc")
    ELSE IF step = ID_PATHS THEN At(DB_IDS, "check")
    ELSE IF step = DB_IDS THEN At(DATES, "check")
    ELSE Done

Abort(reason) ==
    /\ pc' = Aborted
    /\ hist' = [hist EXCEPT !.abort = reason]

Working(step) == hist' = [hist EXCEPT !.worked = @ \cup {step}]

\* cmd_migrate up to the call of run_migration
Start(reset) ==
    /\ pc \in {Idle, Done, Aborted}
    /\ hist.runs < MaxRuns
    /\ LET file == IF reset THEN MissingFile ELSE stateFile
           l == load(file)
       IN  /\ stateFile' = file
           /\ ctx' = [NoCtx EXCEPT !.state = l.state]
           /\ pc' = IF l.raised # "" THEN Aborted ELSE At(PATHS, "check")
           /\ hist' = [NoHist EXCEPT !.runs = hist.runs + 1,
                                     !.resets = hist.resets + (IF reset THEN 1 ELSE 0),
                                     !.crashes = hist.crashes,
                                     !.listed = l.state.completed_steps,
                                     !.abort = l.raised,
                                     !.saved = IF reset THEN {} ELSE hist.saved]
    /\ UNCHANGED <<config, rw, call, loaded, db, tgtFiles>>

\* set_library_db_paths for the first job whose source is named jellyfin.db
SetLibraryDbPaths(c) ==
    IF config.jobs.hasDbJob
    THEN [c EXCEPT !.library_db_source_path = DbSourcePath,
                   !.library_db_target_path = DbTargetPath,
                   !.state.library_db_source_path = DbSourcePath,
                   !.state.library_db_target_path = DbTargetPath]
    ELSE c

restore_db_paths_nothing(c) == c

\* _restore_db_paths
restore_db_paths(c) ==
    IF c.state.library_db_target_path # None
    THEN [c EXCEPT !.library_db_source_path = c.state.library_db_source_path,
                   !.library_db_target_path = c.state.library_db_target_path]
    ELSE SetLibraryDbPaths(c)

\* process_jobs: the job that follows the jellyfin.db job in todo_list_paths
AfterDbJob == IF config.jobs.otherDb = "none" THEN "files" ELSE "other"

\* if ctx.state.is_complete(step): the step is skipped, else its work begins
CheckStep(step) ==
    /\ pc = At(step, "check")
    /\ IF is_complete(ctx.state, step)
       THEN /\ pc' = StepAfter(step)
            /\ ctx' = IF step = PATHS THEN restore_db_paths(ctx) ELSE ctx
            /\ UNCHANGED hist
       ELSE /\ pc' = At(step, IF step = PATHS /\ ~config.jobs.hasDbJob
                               THEN AfterDbJob ELSE "work")
            /\ hist' = [hist EXCEPT !.started = Append(@, step)]
            /\ UNCHANGED ctx
    /\ UNCHANGED <<config, rw, call, stateFile, loaded, db, tgtFiles>>

\* process_jobs, the jellyfin.db job: copy_file keeps a target that is already there
PathsCopy ==
    /\ pc = At(PATHS, "work")
    /\ db' = IF db.exists THEN db ELSE SourceDb
    /\ pc' = At(PATHS, "table")
    /\ Working(PATHS)
    /\ UNCHANGED <<config, rw, call, stateFile, loaded, ctx, tgtFiles>>

\* process_file, the jellyfin.db job: update_db_table rewrites BaseItems.Path and commits
PathsTable ==
    /\ pc = At(PATHS, "table")
    /\ LET res == update_db_table(db.BaseItems, "Path", to_dict(config.path_replacements))
       IN  /\ db' = [db EXCEPT !.BaseItems = res.rows]
           /\ hist' = [hist EXCEPT !.rewrites = @ + res.calls]
    /\ pc' = At(PATHS, AfterDbJob)
    /\ UNCHANGED <<config, rw, call, stateFile, loaded, ctx, tgtFiles>>

\* process_jobs, the job of another database: it is copied, and update_db_table
\* raises TableNotFoundError for a configured table the file does not have
PathsOtherDb ==
    /\ pc = At(PATHS, "other")
    /\ tgtFiles' = tgtFiles \cup {OtherDbFile}
    /\ IF config.jobs.otherDb = "table_not_found"
       THEN Abort("TableNotFoundError")
       ELSE /\ pc' = At(PATHS, "files")
            /\ Working(PATHS)
    /\ UNCHANGED <<config, rw, call, stateFile, loaded, ctx, db>>

\* process_jobs, the copy-only job, and the end of _run_step_paths
PathsFiles ==
    /\ pc = At(PATHS, "files")
    /\ tgtFiles' = tgtFiles \cup {MetadataFile}
    /\ ctx' = SetLibraryDbPaths(ctx)
    /\ pc' = At(PATHS, "mark")
    /\ Working(PATHS)
    /\ UNCHANGED <<config, rw, call, stateFile, loaded, db>>

\* ctx.state.mark_complete(step), and save up to the open that empties the file
MarkComplete(step) ==
    /\ pc = At(step, "mark")
    /\ ctx' = [ctx EXCEPT !.state.completed_steps = @ \cup {step}]
    /\ stateFile' = TruncatedFile
    /\ pc' = At(step, "save")
    /\ UNCHANGED <<config, rw, call, loaded, db, tgtFiles, hist>>

\* save: json.dump and the close of the file
SaveState(step) ==
    /\ pc = At(step, "save")
    /\ stateFile' = SavedFile(ctx.state)
    /\ pc' = StepAfter(step)
    /\ hist' = [hist EXCEPT !.saved = ctx.state.completed_steps]
    /\ UNCHANGED <<config, rw, call, loaded, ctx, db, tgtFiles>>

\* every Id of the source database has been replaced by nothing yet
IdsUntouched(d) ==
    /\ Len(d.BaseItems) = Len(SourceDb.BaseItems)
    /\ \A i \in 1..Len(d.BaseItems) : d.BaseItems[i].Id = SourceDb.BaseItems[i].Id
    /\ d.Refs = SourceDb.Refs

\* the paths are those of the source database rewritten once
PathsRewrittenOnce(d) ==
    LET once == update_db_table(SourceDb.BaseItems, "Path", to_dict(config.path_replacements)).rows
    IN  /\ Len(d.BaseItems) = Len(once)
        /\ \A i \in 1..Len(once) : d.BaseItems[i].Path = once[i].Path

db_path_unchecked(c) == FALSE

\* not ctx.library_db_target_path
db_path_not_set(c) == c.library_db_target_path = None

\* _calculate_id_replacements
Calc ==
    /\ pc = At("", "calc")
    /\ IF db_path_not_set(ctx)
       THEN /\ Abort("Library database path not set")
            /\ UNCHANGED ctx
       ELSE /\ ctx' = [ctx EXCEPT !.id_replacements =
                          from_binary_replacements(get_id_replacements_from_db(db.BaseItems))]
            /\ pc' = At(ID_PATHS, "check")
            /\ hist' = [hist EXCEPT !.calcs = @ + 1,
                                    !.calc_from = [paths_applied |-> PathsRewrittenOnce(db),
                                                   ids_applied |-> ~IdsUntouched(db)]]
    /\ UNCHANGED <<config, rw, call, stateFile, loaded, db, tgtFiles>>

\* _run_step_id_paths: process_jobs reads job.copy_only of the first file it finds
IdPathsWork ==
    /\ pc = At(ID_PATHS, "work")
    /\ IF NoIdReplacements(ctx.id_replacements)
       THEN Abort("ID replacements not calculated")
       ELSE IF config.jobs.idPathFiles > 0
       THEN Abort("AttributeError")
       ELSE /\ pc' = At(ID_PATHS, "mark")
            /\ Working(ID_PATHS)
    /\ UNCHANGED <<config, rw, call, stateFile, loaded, ctx, db, tgtFiles>>

\* _run_step_db_ids up to the commit of BaseItems, whose Id is unique
DbIdsItems ==
    /\ pc = At(DB_IDS, "work")
    /\ IF NoIdReplacements(ctx.id_replacements)
       THEN /\ Abort("ID replacements not calculated")
            /\ UNCHANGED db
       ELSE IF ~db.exists
       THEN /\ pc' = At(DB_IDS, "mark")
            /\ Working(DB_IDS)
            /\ UNCHANGED db
       ELSE /\ db' = [db EXCEPT !.BaseItems =
                         update_db_table_ids(@, "Id", ctx.id_replacements, TRUE)]
            /\ pc' = At(DB_IDS, "table")
            /\ Working(DB_IDS)
    /\ UNCHANGED <<config, rw, call, stateFile, loaded, ctx, tgtFiles>>

\* _run_step_db_ids, the next table of the job and its commit
DbIdsRefs ==
    /\ pc = At(DB_IDS, "table")
    /\ db' = [db EXCEPT !.Refs = update_db_table_ids(@, "ItemId", ctx.id_replacements, FALSE)]
    /\ pc' = At(DB_IDS, "mark")
    /\ UNCHANGED <<config, rw, call, stateFile, loaded, ctx, tgtFiles, hist>>

\* _run_step_dates
DatesWork ==
    /\ pc = At(DATES, "work")
    /\ IF ctx.library_db_target_path = None
       THEN /\ Abort("Library database path not set")
            /\ UNCHANGED db
       ELSE IF update_file_dates(db.BaseItems).raised # ""
       THEN /\ Abort(update_file_dates(db.BaseItems).raised)
            /\ UNCHANGED db
       ELSE /\ db' = [db EXCEPT !.BaseItems = update_file_dates(@).rows]
            /\ pc' = At(DATES, "mark")
            /\ Working(DATES)
    /\ UNCHANGED <<config, rw, call, stateFile, loaded, ctx, tgtFiles>>

\* the process is killed
Crash ==
    /\ pc \notin {Idle, Done, Aborted}
    /\ Len(hist.crashes) < MaxCrashes
    /\ pc' = Idle
    /\ ctx' = NoCtx
    /\ hist' = [hist EXCEPT !.crashes = Append(@, pc)]
    /\ UNCHANGED <<config, rw, call, stateFile, loaded, db, tgtFiles>>

Next ==
    \/ \E reset \in BOOLEAN : Start(reset)
    \/ \E step \in MigrationStep : CheckStep(step)
    \/ PathsCopy
    \/ PathsTable
    \/ PathsFiles
    \/ \E step \in MigrationStep : MarkComplete(step)
    \/ \E step \in MigrationStep : SaveState(step)
    \/ Calc
    \/ IdPathsWork
    \/ DbIdsItems
    \/ DbIdsRefs
    \/ DatesWork
    \/ Crash

Spec == Init /\ [][Next]_vars

\* runs whose todo_list_paths holds, between the jellyfin.db job and the copy-only
\* job, the job of another database
JobsConfigs ==
    {[path_replacements |-> [target_slash |-> Slash, mappings |-> << Mp(S_a, S_b) >>],
      fs_path_replacements |-> DefaultFs,
      jobs |-> [hasDbJob |-> h, idPathFiles |-> 0, otherDb |-> o]] :
        h \in BOOLEAN, o \in {"ok", "table_not_found"}}

InitJobs ==
    /\ config \in JobsConfigs
    /\ rw = RwIdle
    /\ PipelineIdle

NextJobs == Next \/ PathsOtherDb

SpecJobs == InitJobs /\ [][NextJobs]_vars

---------------------------------------------------------------------------
(* The identifier codec: 16 bytes, 32 hex characters, dashed and ancestor forms *)

\* number of sample identifiers the conversions are applied to
MaxIdSamples == 2

\* most conversions applied one after the other to one value
MaxConversions == 3

HexLower == << "0", "1", "2", "3", "4", "5", "6", "7", "8", "9", "a", "b", "c", "d", "e", "f" >>
HexUpper == << "0", "1", "2", "3", "4", "5", "6", "7", "8", "9", "A", "B", "C", "D", "E", "F" >>

IsHexDigit(c) == \E i \in 1..16 : HexLower[i] = c \/ HexUpper[i] = c
HexValue(c) == (CHOOSE i \in 1..16 : HexLower[i] = c \/ HexUpper[i] = c) - 1

\* s[a:b] of Python, for 0 <= a and 0 <= b
Slice(s, a, b) ==
    LET hi == IF b < Len(s) THEN b ELSE Len(s)
    IN  IF a >= hi THEN <<>> ELSE SubSeq(s, a + 1, hi)

\* "".join(parts) and sep.join(parts)
RECURSIVE Join(_, _)
Join(sep, parts) ==
    IF parts = <<>> THEN <<>>
    ELSE IF Len(parts) = 1 THEN parts[1]
    ELSE parts[1] \o sep \o Join(sep, Tail(parts))

Returned(value) == [raised |-> "", value |-> value]
Raised(error) == [raised |-> error, value |-> <<>>]

\* the tuple byte_order of convert_ancestor_id
byte_order_rotated == << 3, 0, 1, 2, 5, 4, 7, 6 >>
byte_order == << 3, 2, 1, 0, 5, 4, 7, 6 >>

\* convert_ancestor_id: the text is cut into groups of two characters, the first
\* eight groups are reordered; a text of fewer than eight groups raises IndexError
convert_ancestor_id(id_str) ==
    LET id_bytes == [k \in 1..((Len(id_str) + 1) \div 2) |->
                        Slice(id_str, 2 * (k - 1), 2 * k)]
    IN  IF \E k \in 1..Len(byte_order) : byte_order[k] >= Len(id_bytes)
        THEN Raised("IndexError")
        ELSE Returned(Join(<<>>, [k \in 1..Len(byte_order) |-> id_bytes[byte_order[k] + 1]]
                                     \o Slice(id_bytes, 8, Len(id_bytes))))

\* binascii.b2a_hex(id_bytes).decode("ascii"): two small hex digits for a byte
RECURSIVE b2a_hex(_)
b2a_hex(data) ==
    IF data = <<>> THEN <<>>
    ELSE << HexLower[(Head(data) \div 16) + 1], HexLower[(Head(data) % 16) + 1] >>
             \o b2a_hex(Tail(data))

binary_to_string(id_bytes) == Returned(b2a_hex(id_bytes))

\* binascii.a2b_hex: a byte for two hex digits of either case
RECURSIVE a2b_hex(_)
a2b_hex(hexstr) ==
    IF hexstr = <<>> THEN <<>>
    ELSE << HexValue(hexstr[1]) * 16 + HexValue(hexstr[2]) >> \o a2b_hex(Slice(hexstr, 2, Len(hexstr)))

\* string_to_binary: binascii.Error for a text of odd length or with another character
string_to_binary(id_str) ==
    IF Len(id_str) % 2 # 0 THEN Raised("binascii.Error")
    ELSE IF \E i \in 1..Len(id_str) : ~IsHexDigit(id_str[i]) THEN Raised("binascii.Error")
    ELSE Returned(a2b_hex(id_str))

\* string_to_dashed: five slices of the text joined by "-"
string_to_dashed(id_str) ==
    Returned(Join(<<"-">>, << Slice(id_str, 0, 8), Slice(id_str, 8, 12), Slice(id_str, 12, 16),
                              Slice(id_str, 16, 20), Slice(id_str, 20, Len(id_str)) >>))

\* str.replace("-", "", 1)
RECURSIVE dashed_to_string_first(_)
dashed_to_string_first(id_dashed) ==
    IF id_dashed = <<>> THEN Returned(<<>>)
    ELSE IF Head(id_dashed) = "-" THEN Returned(Tail(id_dashed))
    ELSE Returned(<<Head(id_dashed)>> \o dashed_to_string_first(Tail(id_dashed)).value)

\* dashed_to_string: id_dashed.replace("-", "")
dashed_to_string(id_dashed) ==
    Returned(SelectSeq(id_dashed, LAMBDA c : c # "-"))

\* 16-byte values
SampleBytes(n) == [i \in 1..16 |-> (n * 89 + i * i * 7 + i * 53) % 256]
BinaryIds == {SampleBytes(n) : n \in 1..MaxIdSamples}

\* their hex texts, as the code writes them and with capital digits
Capitals(s) == [i \in 1..Len(s) |-> IF IsHexDigit(s[i]) THEN HexUpper[HexValue(s[i]) + 1] ELSE s[i]]
StringIds == {b2a_hex(b) : b \in BinaryIds} \cup {Capitals(b2a_hex(b)) : b \in BinaryIds}

\* texts that are no 32-character hex identifier: cut short, too long, or with a
\* character that is no hex digit
Malformed(s) ==
    {Slice(s, 0, n) : n \in {0, 2, 15, 16, 31}}
    \cup {s \o <<"a">>, s \o <<"a", "b">>}
    \cup {[s EXCEPT ![p] = c] : p \in {1, 9, 32}, c \in {"g", "-", " "}}
MalformedIds == UNION {Malformed(s) : s \in StringIds}

IsStringId(s) == Len(s) = 32 /\ \A i \in 1..32 : IsHexDigit(s[i])

\* one conversion applied to call.value
Convert(name, kind, result) ==
    [call EXCEPT !.stage = call.stage + 1, !.fn = name, !.arg = call.value,
                 !.trace = Append(call.trace, name), !.kind = kind,
                 !.raised = result.raised, !.value = result.value]

InitCodec ==
    /\ config = DefaultConfig
    /\ rw = RwIdle
    /\ \/ \E s \in StringIds \cup MalformedIds :
             call = [op |-> "convert", stage |-> 0, input |-> s, kind |-> "str", value |-> s,
                     fn |-> "", arg |-> <<>>, trace |-> <<>>, raised |-> ""]
       \/ \E b \in BinaryIds :
             call = [op |-> "convert", stage |-> 0, input |-> b, kind |-> "bytes", value |-> b,
                     fn |-> "", arg |-> <<>>, trace |-> <<>>, raised |-> ""]
    /\ stateFile = MissingFile
    /\ loaded = NotLoaded
    /\ ctx = NoCtx
    /\ pc = Idle
    /\ db = NoDb
    /\ tgtFiles = {}
    /\ hist = NoHist

\* a conversion is applied to what the one before returned
CanConvert(kind) ==
    /\ call.op = "convert"
    /\ call.stage < MaxConversions
    /\ call.raised = ""
    /\ call.kind = kind

CodecFrame == UNCHANGED <<config, rw, stateFile, loaded, ctx, pc, db, tgtFiles, hist>>

ConvertAncestorId ==
    /\ CanConvert("str")
    /\ call' = Convert("convert_ancestor_id", "str", convert_ancestor_id(call.value))
    /\ CodecFrame

BinaryToString ==
    /\ CanConvert("bytes")
    /\ call' = Convert("binary_to_string", "str", binary_to_string(call.value))
    /\ CodecFrame

StringToBinary ==
    /\ CanConvert("str")
    /\ call' = Convert("string_to_binary", "bytes", string_to_binary(call.value))
    /\ CodecFrame

StringToDashed ==
    /\ CanConvert("str")
    /\ call' = Convert("string_to_dashed", "str", string_to_dashed(call.value))
    /\ CodecFrame

DashedToString ==
    /\ CanConvert("str")
    /\ call' = Convert("dashed_to_string", "str", dashed_to_string(call.value))
    /\ CodecFrame

NextCodec ==
    \/ ConvertAncestorId
    \/ BinaryToString
    \/ StringToBinary
    \/ StringToDashed
    \/ DashedToString

SpecCodec == InitCodec /\ [][NextCodec]_vars

---------------------------------------------------------------------------
(* Identifiers computed from type and path, and the replacement set of a table *)

\* longest path an identifier is computed for
MaxPathLen == 2

\* item types, one of them beginning with another
ItemTypes == {ItemType, ItemType \o <<"a">>, <<"T">>}
ItemPaths == StringsUpTo(MaxPathLen) \ {<<>>}

\* paths of the rows of BaseItems: none, a placeholder, the paths of media; the
\* identifiers the rows were stored under when their paths were others
RowPaths == {<<>>, <<"%", "a">>, S_aa, S_bb}
StoredIds == {new_guid(ItemType, p) : p \in {S_aa, S_ab, S_ba}}

\* tables of BaseItems, whose Id is the primary key
IdentityTables ==
    UNION {{rows \in [1..n -> [Id : StoredIds, type : {ItemType}, Path : RowPaths]] :
               \A i, j \in 1..n : rows[i].Id = rows[j].Id => i = j} : n \in 0..MaxRows}

RowOrders(n) == {f \in [1..n -> 1..n] : \A i, j \in 1..n : f[i] = f[j] => i = j}

\* the (key, value) pairs of a dict
Items(d) == {<< d[i].key, d[i].val >> : i \in 1..Len(d)}

InitIdentity ==
    /\ config = DefaultConfig
    /\ rw = RwIdle
    /\ \/ \E t1 \in ItemTypes, t2 \in ItemTypes, p1 \in ItemPaths, p2 \in ItemPaths :
             call = [op |-> "new_guid", stage |-> 0, t1 |-> t1, p1 |-> p1, t2 |-> t2,
                     p2 |-> p2, id1 |-> md5(<<>>), id2 |-> md5(<<>>)]
       \/ \E rows \in IdentityTables :
             \E order \in RowOrders(Len(rows)) :
                call = [op |-> "get_id_replacements_from_db", stage |-> 0, rows |-> rows,
                        reordered |-> [i \in 1..Len(rows) |-> rows[order[i]]],
                        result |-> <<>>, result_reordered |-> <<>>]
    /\ stateFile = MissingFile
    /\ loaded = NotLoaded
    /\ ctx = NoCtx
    /\ pc = Idle
    /\ db = NoDb
    /\ tgtFiles = {}
    /\ hist = NoHist

\* the identifiers of two items, computed as get_id_replacements_from_db computes them
ComputeIds ==
    /\ call.op = "new_guid"
    /\ call.stage = 0
    /\ call' = [call EXCEPT !.stage = 1,
                            !.id1 = new_guid(call.t1, call.p1),
                            !.id2 = new_guid(call.t2, call.p2)]
    /\ UNCHANGED <<config, rw, stateFile, loaded, ctx, pc, db, tgtFiles, hist>>

\* get_id_replacements_from_db on a table, and on the table with its rows read in
\* another order
ComputeReplacements ==
    /\ call.op = "get_id_replacements_from_db"
    /\ call.stage = 0
    /\ call' = [call EXCEPT !.stage = 1,
                            !.result = get_id_replacements_from_db(call.rows),
                            !.result_reordered = get_id_replacements_from_db(call.reordered)]
    /\ UNCHANGED <<config, rw, stateFile, loaded, ctx, pc, db, tgtFiles, hist>>

NextIdentity == ComputeIds \/ ComputeReplacements

SpecIdentity == InitIdentity /\ [][NextIdentity]_vars

---------------------------------------------------------------------------
(* One run from the empty state that nothing interrupts *)

\* cmd_migrate is entered once
StartOnce(reset) == hist.runs = 0 /\ Start(reset)

NextProgress ==
    \/ \E reset \in BOOLEAN : StartOnce(reset)
    \/ \E step \in MigrationStep : CheckStep(step)
    \/ PathsCopy
    \/ PathsTable
    \/ PathsFiles
    \/ \E step \in MigrationStep : MarkComplete(step)
    \/ \E step \in MigrationStep : SaveState(step)
    \/ Calc
    \/ IdPathsWork
    \/ DbIdsItems
    \/ DbIdsRefs
    \/ DatesWork

\* the places in the program a process can be at
Positions ==
    {Idle, Done, Aborted, At("", "calc")}
    \cup {At(step, at) : step \in MigrationStep,
                         at \in {"check", "work", "table", "other", "files", "mark", "save"}}

\* the process has not been started yet, or has neither returned nor raised
ProcessRuns == pc \notin {Done, Aborted} /\ (pc = Idle => hist.runs = 0)

\* the process moves on to another place
Proceeds == ProcessRuns /\ pc' \in Positions /\ pc' # pc

\* nothing holds the process up: it executes its next statement until it returns or
\* raises
SpecProgress == Init /\ [][NextProgress]_vars /\ WF_pc(Proceeds)

---------------------------------------------------------------------------
(* The rewrite's contract, stated on the written text *)

\* the text a begins the text b and ends where a segment of b ends
SegPrefix(a, b) ==
    /\ IsPrefix(a, b)
    /\ \/ Len(a) = Len(b)
       \/ b[Len(a) + 1] = Slash
       \/ (a # <<>> /\ a[Len(a)] = Slash)

\* the mapping's source prefix is a segment-aligned ancestor of the value
SegmentAligned(m, data) == SegPrefix(AsPosix(m.source), AsPosix(Path(data)))

\* target prefix, then what follows the source prefix in the value, written with sep
Spliced(m, data, sep) ==
    LET nd == AsPosix(Path(data))
        ns == AsPosix(m.source)
    IN  ReplaceSlash(AsPosix(m.target) \o SubSeq(nd, Len(ns) + 1, Len(nd)), sep)

Mappings == config.path_replacements.mappings
TargetSlash == config.path_replacements.target_slash
Matching(data) == {i \in 1..Len(Mappings) : SegmentAligned(Mappings[i], data)}
Least(S) == CHOOSE i \in S : \A j \in S : i <= j

\* neither prefix is the other, an ancestor of it or a descendant of it
Unrelated(p, q) == ~SegPrefix(AsPosix(p), AsPosix(q)) /\ ~SegPrefix(AsPosix(q), AsPosix(p))

\* nothing the table writes can be matched by the table again
CleanTable ==
    IF TargetSlash = Slash
    THEN \A i, j \in 1..Len(Mappings) : Unrelated(Mappings[i].target, Mappings[j].source)
    ELSE \A j \in 1..Len(Mappings) : Mappings[j].source.root # <<>>

Unchanged == rw.result.value = rw.input /\ rw.result.modified_count = 0

\* C8 as stated: for every replacement table, a second rewrite of a rewritten value
\* returns the same value and counts no modification.
C8_IdempotentEveryTable == rw.stage = 2 => Unchanged

\* C8 amended: the second rewrite returns its input with modified count 0 for every
\* table that cannot match what it wrote: with separator "/", no target prefix is
\* equal to, above or below any source prefix; with separator "\", every source
\* prefix is absolute.
C8_IdempotentCleanTable == (rw.stage = 2 /\ CleanTable) => Unchanged

\* a value a clean table did rewrite, rewritten again
C8_Witness ==
    /\ rw.stage = 2
    /\ CleanTable
    /\ rw.prev.modified_count = 1
    /\ rw.result.modified_count = 0

\* C9: whatever the declared list of mappings (overlapping or repeated sources
\* included), the rewrite uses the target of the earliest-declared mapping whose
\* source prefix is an ancestor of the input.
C9_FirstDeclaredWins ==
    (rw.stage >= 1 /\ Matching(rw.input) # {}) =>
        rw.result.value = Spliced(Mappings[Least(Matching(rw.input))], rw.input, TargetSlash)

\* C10: the rewrite matches exactly when some source prefix ends on a segment boundary
\* of the input, and then returns a matching mapping's target prefix joined with the
\* remainder, written with the configured separator, with modified=1 and ignored=0.
C10_SegmentAlignedSplice ==
    rw.stage >= 1 =>
        /\ (rw.result.modified_count = 1) = (Matching(rw.input) # {})
        /\ rw.result.modified_count = 1 =>
              /\ rw.result.ignored_count = 0
              /\ \E i \in Matching(rw.input) :
                    rw.result.value = Spliced(Mappings[i], rw.input, TargetSlash)

\* {/a -> /b} with "\": /a/b became \b\b
C10_Witness ==
    /\ rw.stage = 1
    /\ rw.input = S_ab
    /\ Mappings = << [source |-> Path(S_a), target |-> Path(S_b)] >>
    /\ TargetSlash = Backslash
    /\ rw.result = [value |-> <<Backslash, "b", Backslash, "b">>,
                    modified_count |-> 1, ignored_count |-> 0]

---------------------------------------------------------------------------
(* The warning for a value no mapping matches *)

Counted(seg) == seg # <<>> /\ seg # <<Dot>>

\* the number of path segments written in a text
RECURSIVE SegmentCount(_, _)
SegmentCount(s, cur) ==
    IF s = <<>> THEN (IF Counted(cur) THEN 1 ELSE 0)
    ELSE IF Head(s) = Slash
    THEN (IF Counted(cur) THEN 1 ELSE 0) + SegmentCount(Tail(s), <<>>)
    ELSE SegmentCount(Tail(s), Append(cur, Head(s)))

\* the caller asked for warnings and the table does not switch them off
NotSuppressed ==
    rw.log_warnings /\ ~(rw.table = "fs" /\ config.fs_path_replacements.log_no_warnings)

\* the text begins with http:// or https://
UrlLike(data) ==
    /\ Len(data) >= 3
    /\ Head(data) \in {Http, Https}
    /\ data[2] = Slash /\ data[3] = Slash

\* the text begins with http: or https:
SchemePrefixed(data) == data # <<>> /\ Head(data) \in {Http, Https}

UnmatchedKept ==
    /\ rw.result.value = rw.input
    /\ rw.result.modified_count = 0
    /\ rw.result.ignored_count = 1

\* C11: a value no mapping matches is returned unchanged with modified=0 and ignored=1,
\* and a warning is logged exactly when warnings are not suppressed, the value does not
\* begin with http:// or https://, and the value has more than one path segment.
C11_WarnsUnlessUrlLike ==
    (rw.stage >= 1 /\ Matching(rw.input) = {}) =>
        /\ UnmatchedKept
        /\ (rw.warned = 1) =
              (NotSuppressed /\ ~UrlLike(rw.input) /\ SegmentCount(rw.input, <<>>) > 1)

\* C11 amended: as above, with the warning withheld for every value that begins with
\* http: or https:, whatever follows the colon.
C11_WarnsUnlessSchemePrefixed ==
    (rw.stage >= 1 /\ Matching(rw.input) = {}) =>
        /\ UnmatchedKept
        /\ (rw.warned = 1) =
              (NotSuppressed /\ ~SchemePrefixed(rw.input) /\ SegmentCount(rw.input, <<>>) > 1)

\* {/a -> /b}: /b/a is left alone and a warning is logged
C11_Witness ==
    /\ rw.stage = 1
    /\ rw.input = S_ba
    /\ Mappings = << [source |-> Path(S_a), target |-> Path(S_b)] >>
    /\ rw.result = [value |-> S_ba, modified_count |-> 0, ignored_count |-> 1]
    /\ rw.warned = 1

---------------------------------------------------------------------------
(* The identifier rewrite's contract *)

IdPathCalled == call.op = "recursive_id_path_replace" /\ call.stage = 1

InParts == Path(call.data).parts
OutParts == Path(call.result.value).parts
OldIds == {call.id_replacements.entries[i].key : i \in 1..Len(call.id_replacements.entries)}
NewId(old) == DictGet(call.id_replacements.entries, old)

\* the intermediate segments (every segment but the file name) that are old identifiers
IdSegments == {k \in 1..(Len(InParts) - 1) : InParts[k] \in OldIds}

\* what the segment at k is to become
RenamedSegment(k) ==
    IF k \in IdSegments THEN NewId(InParts[k])
    ELSE IF (k + 1) \in IdSegments /\ IsPrefix(InParts[k], InParts[k + 1])
    THEN Take(NewId(InParts[k + 1]), Len(InParts[k]))
    ELSE InParts[k]

\* C12: for a path some intermediate segment of which is an old identifier of the table,
\* at whatever depth, the rewrite returns the path with each such segment replaced by
\* its new identifier, the folder above it replaced by the equal-length prefix of the
\* new identifier exactly when its name is a prefix of the old one, and every other
\* segment and the file name unchanged.
C12_IdSegmentRenamed ==
    (IdPathCalled /\ IdSegments # {}) =>
        /\ call.result.raised = ""
        /\ call.result.modified_count = 1
        /\ Len(OutParts) = Len(InParts)
        /\ \A k \in 1..Len(InParts) : OutParts[k] = RenamedSegment(k)

\* /a/ab/x became /b/ba/x: the identifier folder and its shard folder are renamed
IdPathShardRenamed ==
    /\ IdPathCalled
    /\ call.data = <<"/", "a", "/", "a", "b", "/", "x">>
    /\ call.result.value = <<"/", "b", "/", "b", "a", "/", "x">>

---------------------------------------------------------------------------
(* The pipeline's contract *)

StepIndex(step) ==
    IF step = PATHS THEN 1 ELSE IF step = ID_PATHS THEN 2 ELSE IF step = DB_IDS THEN 3 ELSE 4

LaterSteps == {ID_PATHS, DB_IDS, DATES}

\* the steps the state file lists as complete
FileSteps(file) ==
    IF file.kind = "json_object" /\ file.steps_kind = "list"
    THEN file.completed_steps \cap MigrationStep
    ELSE {}

Range(q) == {q[i] : i \in 1..Len(q)}

\* the process is inside the work of a step, or computes the replacement set
InWork == pc.at \in {"work", "table", "files", "calc"}

\* where a run that is never killed leaves the database, the files and the state file
U_paths ==
    [SourceDb EXCEPT !.BaseItems =
        update_db_table(@, "Path", to_dict(config.path_replacements)).rows]
U_ids == from_binary_replacements(get_id_replacements_from_db(U_paths.BaseItems))
U_aborts ==
    \/ ~config.jobs.hasDbJob
    \/ NoIdReplacements(U_ids)
    \/ config.jobs.idPathFiles > 0
U_db ==
    IF ~config.jobs.hasDbJob THEN NoDb
    ELSE IF U_aborts THEN U_paths
    ELSE [exists |-> TRUE,
          BaseItems |-> update_file_dates(update_db_table_ids(U_paths.BaseItems, "Id", U_ids, TRUE)).rows,
          Refs |-> update_db_table_ids(U_paths.Refs, "ItemId", U_ids, FALSE)]
U_file ==
    SavedFile([completed_steps |-> IF U_aborts THEN {PATHS} ELSE MigrationStep,
               library_db_source_path |-> IF config.jobs.hasDbJob THEN DbSourcePath ELSE None,
               library_db_target_path |-> IF config.jobs.hasDbJob THEN DbTargetPath ELSE None])

SameAsUninterrupted ==
    /\ db = U_db
    /\ tgtFiles = {MetadataFile}
    /\ stateFile = U_file

Ended == pc \in {Done, Aborted}

\* a first run that is never killed ends in the state computed above
UninterruptedRunEndsThere ==
    (hist.runs = 1 /\ hist.crashes = <<>> /\ hist.resets = 0 /\ Ended) => SameAsUninterrupted

\* C1: within a run the steps begin in the order Paths, Id-paths, Db-ids, Dates, and
\* while the process works on a step (or computes the replacement set) every step this
\* run executed before it is listed as complete in the state file on disk.
C1_OrderedAndCheckpointed ==
    /\ \A i, j \in 1..Len(hist.started) :
          i < j => StepIndex(hist.started[i]) < StepIndex(hist.started[j])
    /\ hist.worked \subseteq Range(hist.started)
    /\ InWork =>
          \A st \in Range(hist.started) : st # pc.step => st \in FileSteps(stateFile)

\* a fresh run is at work on Dates after having executed the three steps before it
C1_Witness ==
    /\ pc = At(DATES, "work")
    /\ hist.started = <<PATHS, ID_PATHS, DB_IDS, DATES>>
    /\ hist.listed = {}

\* C2: a step the state file lists as complete when the run loads it is neither begun
\* nor worked on during that run, and if Paths is listed the run rewrites no path.
C2_ListedStepsSkipped ==
    /\ hist.listed \cap (Range(hist.started) \cup hist.worked) = {}
    /\ PATHS \in hist.listed => hist.rewrites = 0

\* a run that found Paths and Id-paths listed has finished the other two steps
C2_Witness ==
    /\ pc = Done
    /\ hist.listed = {PATHS, ID_PATHS}
    /\ hist.worked = {DB_IDS, DATES}

KilledAfterPathsCheckpoint ==
    /\ hist.runs = 2
    /\ hist.resets = 0
    /\ hist.crashes = << At("", "calc") >>

\* C3: a run killed right after the Paths checkpoint was written and started again
\* rewrites no path in the second run, takes the database paths from the state file,
\* and ends with the database, files and state file of a run that was never killed.
C3_ResumeAfterPaths ==
    (KilledAfterPathsCheckpoint /\ Ended) =>
        /\ hist.rewrites = 0
        /\ PATHS \notin hist.worked
        /\ ctx.library_db_source_path = stateFile.library_db_source_path
        /\ ctx.library_db_target_path = stateFile.library_db_target_path
        /\ SameAsUninterrupted

\* the second run went through the three later steps and finished
C3_Witness ==
    /\ KilledAfterPathsCheckpoint
    /\ pc = Done
    /\ hist.listed = {PATHS}
    /\ hist.worked = LaterSteps
    /\ ctx.library_db_target_path = DbTargetPath

KilledInsideStep ==
    /\ hist.runs = 2
    /\ hist.resets = 0
    /\ Len(hist.crashes) = 1
    /\ hist.crashes[1].step \in MigrationStep
    /\ hist.crashes[1].at \in {"work", "table", "files", "mark"}

\* C4: a run killed anywhere inside a step that is not checkpointed, and started
\* again, ends with the database and files of a run that was never killed.
C4_RerunSafe ==
    (KilledInsideStep /\ Ended) => (db = U_db /\ tgtFiles = {MetadataFile})

\* C5: a run that gets past the computation of the replacement set has computed it
\* exactly once, from a database whose paths are migrated and whose ids are not.
C5_SetFromPathMigratedDb ==
    /\ hist.calcs <= 1
    /\ (pc.step \in LaterSteps \/ pc = Done) => hist.calcs = 1
    /\ hist.calcs = 1 => (hist.calc_from.paths_applied /\ ~hist.calc_from.ids_applied)

\* a missing file, and a file whose content is not the JSON object save writes
MissingOrCorrupt(file) ==
    \/ file.kind \in {"missing", "invalid_json", "not_utf8", "json_non_object"}
    \/ file.kind = "json_object" /\ file.steps_kind = "not_iterable"

\* C6: load raises nothing; it returns the empty state for a missing or corrupt file,
\* and otherwise the listed steps without the identifiers it does not know.
C6_LoadTolerates ==
    loaded.called =>
        /\ loaded.raised = ""
        /\ MissingOrCorrupt(stateFile) => loaded.state = EmptyState
        /\ ~MissingOrCorrupt(stateFile) =>
              loaded.state.completed_steps = FileSteps(stateFile)

\* C7: the process never enters a later step without a database path, and a run that
\* aborted because the path is not set has begun, worked on and marked none of
\* Id-paths, Db-ids and Dates, and has not computed the replacement set.
C7_FailFastWithoutDbPath ==
    /\ (pc.step \in LaterSteps \/ pc = Done) => ctx.library_db_target_path # None
    /\ hist.abort = "Library database path not set" =>
          /\ pc = Aborted
          /\ LaterSteps \cap (Range(hist.started) \cup hist.worked) = {}
          /\ LaterSteps \cap (ctx.state.completed_steps \cup FileSteps(stateFile)) = {}
          /\ hist.calcs = 0

\* a run without a jellyfin.db job aborted after it checkpointed Paths
C7_Witness ==
    /\ pc = Aborted
    /\ hist.abort = "Library database path not set"
    /\ PATHS \in FileSteps(stateFile)
    /\ ~config.jobs.hasDbJob

---------------------------------------------------------------------------
(* Contract of the identifier update of one column *)

Committed(op) == call.op = op /\ call.stage = "committed"

Holding(rows, id) == {i \in 1..Len(rows) : rows[i].Id = id}

\* rows of the table as it was whose identifier the replacements map to new_id
Sources(new_id) ==
    {i \in 1..Len(call.before) :
        /\ DictHas(call.replacements, call.before[i].Id)
        /\ DictGet(call.replacements, call.before[i].Id) = new_id}

NoSharedKey(rows) == \A i, j \in 1..Len(rows) : rows[i].Id = rows[j].Id => i = j

\* C13: when n >= 2 rows of a unique column hold distinct old identifiers that all
\* map to one new identifier, the update ends with exactly one row holding the new
\* identifier and duplicates_removed = n - 1, raises nothing, and never leaves two
\* rows with the same key
C13_OneSurvivorPerCollision ==
    (call.op = "update_db_table_ids" /\ call.unique) =>
        /\ NoSharedKey(call.txn) /\ NoSharedKey(call.disk)
        /\ call.raised # "" => Head(call.columns) = "Missing"
        /\ call.stage = "committed" =>
              \A new_id \in Ids :
                 Cardinality(Sources(new_id)) >= 2 =>
                    /\ Cardinality(Holding(call.disk, new_id)) = 1
                    /\ call.duplicates = Cardinality(Sources(new_id)) - 1

\* the same, for the tables in which the colliding rows are the only rows that are
\* remapped and no row holds the new identifier beforehand
CollisionOnFreeIdentifier ==
    (Committed("update_db_table_ids") /\ call.unique) =>
        \A new_id \in Ids :
           (/\ Cardinality(Sources(new_id)) >= 2
            /\ Holding(call.before, new_id) = {}
            /\ \A i \in 1..Len(call.before) :
                  DictHas(call.replacements, call.before[i].Id) => i \in Sources(new_id)) =>
              /\ Cardinality(Holding(call.disk, new_id)) = 1
              /\ call.duplicates = Cardinality(Sources(new_id)) - 1

\* three rows have collided on an identifier that no row held
ThreeCollided ==
    /\ Committed("update_db_table_ids") /\ call.unique
    /\ \E new_id \in Ids :
          /\ Cardinality(Sources(new_id)) = 3
          /\ Cardinality(Holding(call.disk, new_id)) = 1
          /\ call.duplicates = 2

---------------------------------------------------------------------------
(* Contract of the path update of one table *)

\* C14: update_db_table issues an UPDATE only for rows in which the rewrite changed
\* the stored value of at least one configured column
C14_OnlyChangedRowsWritten ==
    call.op = "update_db_table" =>
        \A rowid \in call.written : call.txn[rowid] # call.before[rowid]

---------------------------------------------------------------------------
(* Contract of the date correction *)

\* the date stands for a moment at or after the epoch, before it
AtOrAfterEpoch(date) == ~date.null /\ date.seconds >= 0
BeforeEpoch(date) == ~date.null /\ date.seconds < 0

\* the file the row's path resolves to exists
FileExists(row) == row.Path \in MediaFiles

\* C15: update_file_dates leaves every DateCreated and DateModified that is at or
\* after the epoch as it is stored, and a row with both of them valid is not updated,
\* whatever the timestamps of its file
C15_ValidDatesKept ==
    call.op = "update_file_dates" =>
        \A i \in 1..Len(call.before) :
           /\ AtOrAfterEpoch(call.before[i].DateCreated) =>
                 /\ call.txn[i].DateCreated = call.before[i].DateCreated
                 /\ call.disk[i].DateCreated = call.before[i].DateCreated
           /\ AtOrAfterEpoch(call.before[i].DateModified) =>
                 /\ call.txn[i].DateModified = call.before[i].DateModified
                 /\ call.disk[i].DateModified = call.before[i].DateModified
           /\ (AtOrAfterEpoch(call.before[i].DateCreated)
                 /\ AtOrAfterEpoch(call.before[i].DateModified)) => i \notin call.written

\* a row whose file exists had its invalid DateCreated replaced and its valid
\* DateModified, which differs from the file's, kept
C15_Witness ==
    /\ Committed("update_file_dates")
    /\ \E i \in call.written :
          /\ FileExists(call.before[i])
          /\ BeforeEpoch(call.before[i].DateCreated)
          /\ call.disk[i].DateCreated = ns_to_jellyfin_date(FileCTime)
          /\ AtOrAfterEpoch(call.before[i].DateModified)
          /\ call.disk[i].DateModified = call.before[i].DateModified
          /\ call.disk[i].DateModified # ns_to_jellyfin_date(FileMTime)

\* C16: once the date correction has committed, every item with a non-empty path
\* whose file exists has each date that lies before the epoch, in whatever form it
\* is stored, replaced by the file's timestamp
C16_InvalidDatesReplaced ==
    Committed("update_file_dates") =>
        \A i \in 1..Len(call.before) :
           (call.before[i].Path # <<>> /\ FileExists(call.before[i])) =>
              /\ BeforeEpoch(call.before[i].DateCreated) =>
                    call.disk[i].DateCreated = ns_to_jellyfin_date(FileCTime)
              /\ BeforeEpoch(call.before[i].DateModified) =>
                    call.disk[i].DateModified = ns_to_jellyfin_date(FileMTime)

\* the same, for rows whose two dates are both in a form jellyfin_date_to_ns parses
InvalidParsedDatesReplaced ==
    Committed("update_file_dates") =>
        \A i \in 1..Len(call.before) :
           (/\ call.before[i].Path # <<>> /\ FileExists(call.before[i])
            /\ jellyfin_date_to_ns(call.before[i].DateCreated).raised = ""
            /\ jellyfin_date_to_ns(call.before[i].DateModified).raised = "") =>
              /\ BeforeEpoch(call.before[i].DateCreated) =>
                    call.disk[i].DateCreated = ns_to_jellyfin_date(FileCTime)
              /\ BeforeEpoch(call.before[i].DateModified) =>
                    call.disk[i].DateModified = ns_to_jellyfin_date(FileMTime)

---------------------------------------------------------------------------
(* Contract of resolve_target_path *)

Resolved == call.op = "resolve_target_path" /\ call.stage = 1

\* C17: for every target string other than "auto" and "auto-existing" the resolved
\* path is the configured path itself and skip_copy is false
C17_ExplicitTargetIsLiteral ==
    (Resolved /\ call.target \notin {Auto, AutoExisting}) =>
        /\ call.result.path = Path(call.target)
        /\ ~call.result.skip_copy

\* the same, for the target strings that do not begin with "auto"
TargetNotBeginningWithAuto ==
    (Resolved /\ ~IsPrefix(Auto, call.target)) =>
        /\ call.result.path = Path(call.target)
        /\ ~call.result.skip_copy

\* the source as it was in the original installation, rewritten by the path table
\* and then by the filesystem table
Rewritten ==
    LET original == JoinPath(OriginalRoot, RelativeTo(call.source, SourceRoot))
        by_path == recursive_path_replace(AsPosix(original),
                                          to_dict(config.path_replacements)).value
    IN  recursive_path_replace(by_path, fs_to_dict(config.fs_path_replacements)).value

LooksAbsolute(text) == text # <<>> /\ Head(text) = Slash

\* text placed under the target root
UnderTargetRoot(text) == JoinPath(TargetRoot, [root |-> <<>>, parts |-> Path(text).parts])

\* C18: in the auto modes the resolved path is the rewritten original path placed
\* under the target root, also when the rewritten path starts with the separator
C18_AutoUnderTargetRoot ==
    (/\ Resolved
     /\ call.target \in {Auto, AutoExisting}
     /\ IsRelativeTo(call.source, SourceRoot)) =>
        call.result.path = UnderTargetRoot(Rewritten)

\* the same, for the rewritten paths that do not start with the separator
AutoRelativeUnderTargetRoot ==
    (/\ Resolved
     /\ call.target \in {Auto, AutoExisting}
     /\ IsRelativeTo(call.source, SourceRoot)
     /\ ~LooksAbsolute(Rewritten)) =>
        call.result.path = UnderTargetRoot(Rewritten)

\* a rewritten path that starts with the separator comes back as it is
AutoAbsoluteReturnedAsIs ==
    (/\ Resolved
     /\ call.target \in {Auto, AutoExisting}
     /\ IsRelativeTo(call.source, SourceRoot)
     /\ LooksAbsolute(Rewritten)) =>
        call.result.path = Path(Rewritten)

---------------------------------------------------------------------------
(* Contract of a run whose job of another database fails *)

\* the first run of the program, never killed, has ended
FirstRunEnded == hist.runs = 1 /\ hist.crashes = <<>> /\ pc \in {Done, Aborted}

\* C19: a database error in the job of a database other than jellyfin.db ends that
\* job only: the jobs after it in the step and the steps after it are still executed
C19_OtherDbErrorEndsJobOnly ==
    (FirstRunEnded /\ config.jobs.otherDb = "table_not_found") =>
        /\ MetadataFile \in tgtFiles
        /\ config.jobs.hasDbJob => pc = Done /\ ctx.state.completed_steps = MigrationStep

\* without the error the first run executes every job and every step
RunWithoutErrorCompletes ==
    (FirstRunEnded /\ config.jobs.otherDb = "ok" /\ config.jobs.hasDbJob) =>
        /\ MetadataFile \in tgtFiles
        /\ pc = Done /\ ctx.state.completed_steps = MigrationStep

\* the error ends the run where it is raised
OtherDbErrorEndsRun ==
    (FirstRunEnded /\ config.jobs.otherDb = "table_not_found") =>
        /\ pc = Aborted /\ hist.abort = "TableNotFoundError"
        /\ MetadataFile \notin tgtFiles
        /\ ctx.state.completed_steps = {}

---------------------------------------------------------------------------
(* Contract of the transaction of one table *)

TableUpdate == call.op \in {"update_db_table", "update_db_table_ids"}

\* C20: what update_db_table or update_db_table_ids changes in a table reaches the
\* database file only with the commit that follows its last row; killed or left by
\* an exception before that commit, the call leaves the table as it found it
C20_DurableOnlyByCommit ==
    TableUpdate =>
        /\ call.stage # "committed" => call.disk = call.before
        /\ call.stage = "committed" => call.disk = call.txn

\* a call was killed, or left by an exception, after it had changed rows
C20_Witness ==
    /\ TableUpdate
    /\ call.stage \in {"killed", "raised"}
    /\ call.modified > 0 \/ call.updated > 0 \/ call.duplicates > 0
    /\ call.disk = call.before

\* a call that changed rows has committed them
CommittedChanges == TableUpdate /\ call.stage = "committed" /\ call.disk # call.before

---------------------------------------------------------------------------
(* Contract of the identifier codec *)

Converted(name) == call.op = "convert" /\ call.stage > 0 /\ call.fn = name

\* the conversions whose argument is a 32-character hex text
TakesStringId == {"string_to_binary", "string_to_dashed", "convert_ancestor_id"}

\* C21: a conversion given a text that is not 32 hex characters (wrong length, or a
\* character that is no hex digit) fails with an error and returns no identifier
C21_MalformedHexRejected ==
    (\E name \in TakesStringId : Converted(name)) /\ ~IsStringId(call.arg)
        => call.raised # ""

\* string_to_binary rejects a text of odd length and a text with another character
OddOrNonHexRejected ==
    Converted("string_to_binary")
    /\ (Len(call.arg) % 2 # 0 \/ \E i \in 1..Len(call.arg) : ~IsHexDigit(call.arg[i]))
        => call.raised = "binascii.Error"

\* string_to_binary has returned the bytes of a text of even length other than 32
ShortTextConverted ==
    /\ Converted("string_to_binary")
    /\ Len(call.arg) = 2
    /\ call.raised = ""
    /\ Len(call.value) = 1

\* C24: the ancestor reorder applied twice to a 32-character hex identifier returns
\* the identifier
C24_AncestorInvolution ==
    (call.op = "convert" /\ call.trace = << "convert_ancestor_id", "convert_ancestor_id" >>
        /\ IsStringId(call.input))
        => call.raised = "" /\ call.value = call.input

\* the reorder was applied twice, and once it changed the identifier
C24_Witness ==
    /\ call.op = "convert"
    /\ call.trace = << "convert_ancestor_id", "convert_ancestor_id" >>
    /\ IsStringId(call.input)
    /\ call.arg # call.input
    /\ call.value = call.input

\* C25: for a 16-byte value b, string_to_binary(binary_to_string(b)) = b, and
\* dashed_to_string(string_to_dashed(binary_to_string(b))) = binary_to_string(b)
C25_CodecRoundTrip ==
    (call.op = "convert" /\ call.kind # "" /\ Len(call.input) = 16
        /\ call.trace # <<>> /\ call.trace[1] = "binary_to_string")
        => /\ call.trace = << "binary_to_string", "string_to_binary" >>
                => call.raised = "" /\ call.value = call.input
           /\ call.trace = << "binary_to_string", "string_to_dashed", "dashed_to_string" >>
                => call.raised = "" /\ call.value = binary_to_string(call.input).value

\* the dashed form, of 36 characters, was turned back into the 32 of the hex text
C25_Witness ==
    /\ call.op = "convert"
    /\ call.trace = << "binary_to_string", "string_to_dashed", "dashed_to_string" >>
    /\ Len(call.input) = 16
    /\ Len(call.arg) = 36
    /\ call.value = binary_to_string(call.input).value
    /\ string_to_binary(call.value).value = call.input

---------------------------------------------------------------------------
(* Contract of the computed identifiers *)

IdsComputed == call.op = "new_guid" /\ call.stage = 1

\* C22 as stated: the identifiers of (t1, p1) and (t2, p2) are equal if and only if
\* t1 = t2 and p1 = p2
C22_EqualIffSameTypeAndPath ==
    IdsComputed => (call.id1 = call.id2 <=> (call.t1 = call.t2 /\ call.p1 = call.p2))

\* C22: the identifiers of (t1, p1) and (t2, p2) are equal if and only if the texts
\* t1 + p1 and t2 + p2 are equal; for one type, if and only if the paths are equal
C22_EqualIffSameConcatenation ==
    IdsComputed =>
        /\ call.id1 = call.id2 <=> (call.t1 \o call.p1 = call.t2 \o call.p2)
        /\ call.t1 = call.t2 => (call.id1 = call.id2 <=> call.p1 = call.p2)

\* two items of different types and paths have one identifier
C22_Witness ==
    /\ IdsComputed
    /\ call.t1 # call.t2
    /\ call.p1 # call.p2
    /\ call.id1 = call.id2

---------------------------------------------------------------------------
(* Contract of the identifier update as a substitution *)

\* the row of the table as it is now that had the given rowid at the start
Survivors(rowid) == {j \in 1..Len(call.disk) : call.disk[j].rowid = rowid}

IsKey(id) == DictHas(call.replacements, id)

\* C26: after the update of an identifier column with the replacements R, every row
\* that is still in the table and held a key v of R holds R[v], also when R[v] is a
\* key of R, and every row that held a value that is no key of R is in the table
\* with that value
C26_SimultaneousSubstitution ==
    Committed("update_db_table_ids") =>
        \A i \in 1..Len(call.before) :
           LET v == call.before[i].Id
           IN  /\ IsKey(v) =>
                    \A j \in Survivors(call.before[i].rowid) :
                       call.disk[j].Id = DictGet(call.replacements, v)
               /\ ~IsKey(v) =>
                    \E j \in Survivors(call.before[i].rowid) : call.disk[j].Id = v

\* rows that held a value that is no key of R are neither changed nor deleted
RowsWithoutKeyKept ==
    Committed("update_db_table_ids") =>
        \A i \in 1..Len(call.before) :
           ~IsKey(call.before[i].Id) =>
              \E j \in Survivors(call.before[i].rowid) : call.disk[j].Id = call.before[i].Id

\* when no value of R is a key of R, every surviving row that held a key holds its value
SubstitutedWithoutChain ==
    (Committed("update_db_table_ids")
        /\ \A k \in 1..Len(call.replacements) : ~IsKey(call.replacements[k].val)) =>
        \A i \in 1..Len(call.before) :
           IsKey(call.before[i].Id) =>
              \A j \in Survivors(call.before[i].rowid) :
                 call.disk[j].Id = DictGet(call.replacements, call.before[i].Id)

\* a row that held a key was rewritten a second time
RewrittenTwice ==
    /\ Committed("update_db_table_ids")
    /\ \E i \in 1..Len(call.before) :
          /\ IsKey(call.before[i].Id)
          /\ IsKey(DictGet(call.replacements, call.before[i].Id))
          /\ \E j \in Survivors(call.before[i].rowid) :
                call.disk[j].Id =
                    DictGet(call.replacements, DictGet(call.replacements, call.before[i].Id))

---------------------------------------------------------------------------
(* Contract of the checkpoints across kills *)

\* cmd_migrate has loaded the state file and run_migration begins
RunBegins == pc = At(PATHS, "check")

AtRest == pc \in {Idle, Done, Aborted}

KilledIn(at) == \E i \in 1..Len(hist.crashes) : hist.crashes[i].at = at

\* C27: after a kill at any point of a run, the steps the state file listed as
\* complete before the kill are read as complete by the load of the next run, and
\* the next run does not begin the work of any of them
C27_KillKeepsCheckpoints ==
    hist.crashes # <<>> =>
        /\ RunBegins => hist.saved \subseteq hist.listed
        /\ pc.at = "work" => pc.step \notin hist.saved

\* a kill anywhere but between the open and the close of save keeps the checkpoints
KillOutsideSaveKeepsCheckpoints ==
    (hist.crashes # <<>> /\ ~KilledIn("save")) =>
        /\ RunBegins => hist.saved \subseteq hist.listed
        /\ pc.at = "work" => pc.step \notin hist.saved

\* the run after a kill inside save works on the step Paths again
PathsRedoneAfterKillInSave ==
    /\ KilledIn("save")
    /\ PATHS \in hist.saved
    /\ pc = At(PATHS, "work")

\* C28: a run whose computed replacement set is empty still completes and
\* checkpoints the steps Id-paths and Db-ids; it aborts with "ID replacements not
\* calculated" only if the replacement set was never computed
C28_EmptySetStillCompletes ==
    /\ (pc = Aborted /\ hist.abort = "ID replacements not calculated") =>
          ctx.id_replacements.is_none
    /\ (pc = Done /\ ~ctx.id_replacements.is_none /\ Len(ctx.id_replacements.bin) = 0) =>
          {ID_PATHS, DB_IDS} \subseteq FileSteps(stateFile)

\* the abort with a computed, empty replacement set
AbortedWithEmptySet ==
    /\ pc = Aborted
    /\ hist.abort = "ID replacements not calculated"
    /\ hist.calcs = 1
    /\ ~ctx.id_replacements.is_none

IsPrefixOfOrder(steps) ==
    \A s \in steps : \A t \in MigrationStep : StepIndex(t) < StepIndex(s) => t \in steps

\* C30: the steps the state file lists are always a prefix of the order Paths,
\* Id-paths, Db-ids, Dates, and whenever no process runs the file lists every step
\* it has listed since the last reset
C30_PrefixAndGrowing ==
    /\ IsPrefixOfOrder(FileSteps(stateFile))
    /\ AtRest => hist.saved \subseteq FileSteps(stateFile)

\* the steps the file lists are a prefix of the order at every moment
ListedStepsArePrefix == IsPrefixOfOrder(FileSteps(stateFile))

\* unless a process was killed between the open and the close of save, the file
\* lists at rest every step it has listed since the last reset
GrowingUnlessKilledInSave ==
    (AtRest /\ ~KilledIn("save")) => hist.saved \subseteq FileSteps(stateFile)

---------------------------------------------------------------------------
(* Contract of the progress of a run *)

AllStepsCheckpointed == FileSteps(stateFile) = MigrationStep

\* a valid configuration: it has the jellyfin.db job and mappings that move its paths
ValidConfig == config.jobs.hasDbJob /\ config.path_replacements.mappings # <<>>

\* C29: a run from the empty state, for a valid configuration whose identifier-path
\* jobs match an existing file, eventually has all four steps checkpointed
C29_AllStepsEventually ==
    (ValidConfig /\ config.jobs.idPathFiles > 0) => <>AllStepsCheckpointed

\* with no identifier-path job the run checkpoints all four steps
ProgressWithoutIdPathJob ==
    (ValidConfig /\ config.jobs.idPathFiles = 0) => <>AllStepsCheckpointed

\* the run ends in the step Id-paths with the AttributeError of process_jobs, Paths
\* being the only step checkpointed
IdPathJobEndsRun ==
    (ValidConfig /\ config.jobs.idPathFiles > 0 /\ hist.crashes = <<>> /\ hist.runs = 1
        /\ Ended) =>
        /\ pc = Aborted
        /\ hist.abort = "AttributeError"
        /\ FileSteps(stateFile) = {PATHS}

====
